---- MODULE Spec2Model ----
(***************************************************************************)
(* A model of corm (nikola-chen/corm): the placeholder compiler of         *)
(* builder/arg_builder.go, the statement builders of builder/*.go and the  *)
(* concurrent schema cache of schema/schema.go.                            *)
(*                                                                         *)
(* SQL text is a sequence of one-character strings.  The specifications    *)
(* that share the module: SpecExpr (one fragment compiled by appendExpr),  *)
(* SpecBuild (statement builders), SpecSchema and SpecSchemaFair           *)
(* (ParseType goroutines), SpecPool (the pooled buffers of SQL()),         *)
(* SpecBatch (statements built from structs and maps), SpecMap (from one   *)
(* map), SpecRows (INSERT rows), SpecLock (FOR UPDATE and UNION),          *)
(* SpecIdent (identifier quoting), SpecClause (clause.In, And, Or) and     *)
(* SpecSticky (calls after a refused one).                                 *)
(***************************************************************************)
EXTENDS Integers, Sequences, FiniteSets, TLC

VARIABLES
    e,          \* SpecExpr: the clause.Expr handed to appendExpr, [SQL, Args]; NoExpr before
    ab,         \* SpecExpr: the argBuilder (d, idx, args, usesQmark, buf)
    ret,        \* SpecExpr: what appendExpr returned: "none" before the call, else the error
    scan,       \* SpecExpr: the scan appendExpr ran: [ran, hits]
    cache,      \* SpecSchema: schema.cache, a sync.Map from type to *Schema
    cacheCount, \* SpecSchema: schema.cacheCount, an atomic.Uint64
    parseGroup, \* SpecSchema: schema.parseGroup, a sync.Map from type to *parseEntry
    entry,      \* SpecSchema: the parseEntry objects, by the call that allocated them
    g,          \* SpecSchema: each goroutine's position and locals inside ParseType
    hist,       \* SpecSchema: the calls of ParseType made so far, with what they returned
    runs,       \* SpecSchema: how many times parseSlow was entered, by type
    bld,        \* SpecBuild: the statement builders, by the order they were made
    res,        \* SpecBuild: what SQL() of the first builder returned: [sql, args, err]
    req,        \* SpecBuild: what the caller asked of each builder (kept for the claims)
    ops,        \* SpecBuild: the method calls made so far
    arrays,     \* SpecPool: the backing arrays of []any slices, by the order they were made
    abObj,      \* SpecPool: the argBuilder objects argBuilderPool.New has made
    bufObj,     \* SpecPool: the bytes.Buffer objects bufferPool.New has made
    argBuilderPool, \* SpecPool: the argBuilders that lie in builder.argBuilderPool
    bufferPool, \* SpecPool: the buffers that lie in builder.bufferPool
    gr,         \* SpecPool: each goroutine's position and locals inside SelectBuilder.SQL
    out,        \* SpecPool: what the calls of SQL() returned, in the order they returned
    stmt,       \* SpecBatch, SpecMap, SpecRows, SpecSticky: the builders the caller holds
    sres,       \* SpecBatch, SpecMap, SpecRows, SpecSticky: what SQL() of the first returned: [sql, args, err]
    slog,       \* SpecBatch, SpecMap, SpecRows, SpecSticky: the method calls made so far (kept for the claims)
    input,      \* SpecIdent, SpecClause: the function called and its arguments
    output      \* SpecIdent, SpecClause: what it returned; NoOutput before the call

exprVars == <<e, ab, ret, scan>>
schemaVars == <<cache, cacheCount, parseGroup, entry, g, hist, runs>>
buildVars == <<bld, res, req, ops>>
poolVars == <<arrays, abObj, bufObj, argBuilderPool, bufferPool, gr, out>>
batchVars == <<stmt, sres, slog>>
funcVars == <<input, output>>
vars == <<exprVars, schemaVars, buildVars, poolVars, batchVars, funcVars>>

\* what the actions of one specification leave alone
outsideExpr == <<schemaVars, buildVars, poolVars, batchVars, funcVars>>
outsideSchema == <<exprVars, buildVars, poolVars, batchVars, funcVars>>
outsideBuild == <<exprVars, schemaVars, poolVars, batchVars, funcVars>>
outsidePool == <<exprVars, schemaVars, buildVars, batchVars, funcVars>>
outsideBatch == <<exprVars, schemaVars, buildVars, poolVars, funcVars>>
outsideFunc == <<exprVars, schemaVars, buildVars, poolVars, batchVars>>

-----------------------------------------------------------------------------
(* Bounds of the model *)

\* longest fragment text of SpecExpr
MaxTextLen == 4
\* most arguments a fragment of SpecExpr carries
MaxArgs == 1
\* goroutines calling ParseType in SpecSchema
NumProcs == 3
\* struct types handed to ParseType in SpecSchema
NumTypes == 3
\* calls of ParseType in one behaviour of SpecSchema
MaxCalls == 3

-----------------------------------------------------------------------------
(* The state of each part of the program before it is used *)

NoErr == "nil"

NoAB == [d |-> "none"]
NoExpr == [SQL |-> <<>>, Args |-> <<"none">>]
NoScan == [ran |-> "none", hits |-> {}]

ExprIdle == e = NoExpr /\ ab = NoAB /\ ret = "none" /\ scan = NoScan

\* SQL() not yet called
NoRes == [sql |-> <<>>, args |-> <<>>, err |-> "none"]

\* no builder made yet
BuildIdle == bld = <<>> /\ res = NoRes /\ req = <<>> /\ ops = 0

\* the pools of the builder package at program start, SQL() not yet called
PoolIdle ==
    /\ arrays = <<>>
    /\ abObj = <<>>
    /\ bufObj = <<>>
    /\ argBuilderPool = {}
    /\ bufferPool = {}
    /\ gr = <<>>
    /\ out = <<>>

\* no builder for a statement from structs or maps made yet
BatchIdle == stmt = <<>> /\ sres = NoRes /\ slog = <<>>

\* no function called
NoInput == [fn |-> "none"]
NoOutput == [of |-> "none"]
FuncIdle == input = NoInput /\ output = NoOutput

Procs == 1..NumProcs
Types == 1..NumTypes

\* a nil *Schema; the Schema the n-th run of parseSlow(t) allocates is [Type |-> t, n |-> n]
NoSchema == [Type |-> 0, n |-> 0]

\* a parseEntry as ParseType allocates it: done open, s and err nil
NewEntry == [done |-> FALSE, s |-> NoSchema, err |-> NoErr]

\* a goroutine outside ParseType
Idle ==
    [pc |-> "idle", c |-> 0, t |-> 0, e |-> 0, s |-> NoSchema, err |-> NoErr,
     evicted |-> FALSE, seen |-> {}, must |-> {}, k |-> 0]

\* the package variables of schema.go at program start, no call made
SchemaIdle ==
    /\ cache = [t \in Types |-> NoSchema]
    /\ cacheCount = 0
    /\ parseGroup = [t \in Types |-> 0]
    /\ entry = [c \in 1..MaxCalls |-> NewEntry]
    /\ g = [p \in Procs |-> Idle]
    /\ hist = <<>>
    /\ runs = [t \in Types |-> 0]

-----------------------------------------------------------------------------
(* Characters and strings *)

LowerLetters ==
    <<"a", "b", "c", "d", "e", "f", "g", "h", "i", "j", "k", "l", "m",
      "n", "o", "p", "q", "r", "s", "t", "u", "v", "w", "x", "y", "z">>
UpperLetters ==
    <<"A", "B", "C", "D", "E", "F", "G", "H", "I", "J", "K", "L", "M",
      "N", "O", "P", "Q", "R", "S", "T", "U", "V", "W", "X", "Y", "Z">>
Letters == {LowerLetters[i] : i \in 1..26} \cup {UpperLetters[i] : i \in 1..26}
Digits == {"0", "1", "2", "3", "4", "5", "6", "7", "8", "9"}
DigitOf == <<"0", "1", "2", "3", "4", "5", "6", "7", "8", "9">>

\* the characters fragment texts of SpecExpr are drawn from: every character
\* the scanners of arg_builder.go treat specially, and one ordinary letter
\* ('&' is left out: the code tests it in the same case as '|')
Alphabet == {"?", "'", "\"", "-", "/", "*", "$", "\\", "\n", " ", "|", "a"}

\* strconv.Itoa for n >= 0
RECURSIVE Itoa(_)
Itoa(n) == IF n < 10 THEN <<DigitOf[n + 1]>> ELSE Itoa(n \div 10) \o <<DigitOf[(n % 10) + 1]>>

\* strings.IndexByte(s, c) >= 0
HasByte(s, c) == \E p \in 1..Len(s) : s[p] = c

\* strings.HasPrefix(s[i:], t), i counted from 1
HasPrefixAt(s, i, t) == i + Len(t) - 1 <= Len(s) /\ SubSeq(s, i, i + Len(t) - 1) = t

Whitespace == {" ", "\t", "\n", "\r"}

\* strings.TrimSpace(s) = ""
IsBlank(s) == \A p \in 1..Len(s) : s[p] \in Whitespace

-----------------------------------------------------------------------------
(* Dialects: dialect/dialect.go, dialect/postgres.go and the mysql dialect *)

Dialects == {"mysql", "postgres"}

Placeholder(d, n) == IF d = "mysql" THEN <<"?">> ELSE <<"$">> \o Itoa(n)

\* the backquote character of the mysql dialect, written as a two-letter symbol
Backquote == "BQ"

\* identifiers that pass validation hold no quote character, so the
\* doubling of embedded quotes (strings.ReplaceAll) never applies to them
QuoteIdent(d, ident) ==
    IF d = "mysql" THEN <<Backquote>> \o ident \o <<Backquote>>
    ELSE <<"\"">> \o ident \o <<"\"">>

-----------------------------------------------------------------------------
(* Errors *)

ErrTooLong == "corm: SQL statement exceeds maximum length of 1MB"
ErrMissingPlaceholders == "corm: missing placeholders for args"
ErrCountMismatch == "corm: placeholder count mismatch"
ErrJsonbAny == "corm: postgres jsonb operator '?|/?&' conflicts with placeholder '?'"
ErrJsonbExists == "corm: postgres jsonb operator '?' conflicts with placeholder '?'"

maxSQLLength == 1048576

-----------------------------------------------------------------------------
(* The scanners of arg_builder.go.  Positions are counted from 1, so the  *)
(* code's i < n reads s.i <= n and its i+1 < n reads s.i + 1 <= n.  The    *)
(* field hits records the positions whose '?' was counted or rewritten.    *)

IsTagChar(ch) == ch \in Letters \cup Digits \cup {"_"}

\* the inner loop "for j < n" of the dollar-tag test: the first position at
\* or after j that holds no tag character
RECURSIVE TagEnd(_, _)
TagEnd(sql, j) == IF j <= Len(sql) /\ IsTagChar(sql[j]) THEN TagEnd(sql, j + 1) ELSE j

ScanInit ==
    [i |-> 1, inSingleQuote |-> FALSE, inDoubleQuote |-> FALSE, inLineComment |-> FALSE,
     inBlockComment |-> FALSE, dollarTag |-> <<>>, count |-> 0, hits |-> {}]

\* one iteration of the loop of countQuestionPlaceholders
CountStep(sql, s, allowBackslashEscape) ==
    LET n == Len(sql)
        ch == sql[s.i]
        more == s.i + 1 <= n
        j == TagEnd(sql, s.i + 1)
    IN  IF s.inLineComment
          THEN [s EXCEPT !.i = @ + 1, !.inLineComment = (ch # "\n")]
        ELSE IF s.inBlockComment
          THEN IF more /\ ch = "*" /\ sql[s.i + 1] = "/"
                 THEN [s EXCEPT !.i = @ + 2, !.inBlockComment = FALSE]
                 ELSE [s EXCEPT !.i = @ + 1]
        ELSE IF s.dollarTag # <<>>
          THEN IF HasPrefixAt(sql, s.i, s.dollarTag)
                 THEN [s EXCEPT !.i = @ + Len(s.dollarTag), !.dollarTag = <<>>]
                 ELSE [s EXCEPT !.i = @ + 1]
        ELSE IF s.inSingleQuote
          THEN IF allowBackslashEscape /\ ch = "\\"
                 THEN [s EXCEPT !.i = IF more THEN @ + 2 ELSE @ + 1]
               ELSE IF ch = "'"
                 THEN IF more /\ sql[s.i + 1] = "'"
                        THEN [s EXCEPT !.i = @ + 2]
                        ELSE [s EXCEPT !.i = @ + 1, !.inSingleQuote = FALSE]
               ELSE [s EXCEPT !.i = @ + 1]
        ELSE IF s.inDoubleQuote
          THEN [s EXCEPT !.i = @ + 1, !.inDoubleQuote = (ch # "\"")]
        ELSE IF more /\ ch = "-" /\ sql[s.i + 1] = "-"
          THEN [s EXCEPT !.i = @ + 2, !.inLineComment = TRUE]
        ELSE IF more /\ ch = "/" /\ sql[s.i + 1] = "*"
          THEN [s EXCEPT !.i = @ + 2, !.inBlockComment = TRUE]
        ELSE IF ch = "'"
          THEN [s EXCEPT !.i = @ + 1, !.inSingleQuote = TRUE]
        ELSE IF ch = "\""
          THEN [s EXCEPT !.i = @ + 1, !.inDoubleQuote = TRUE]
        ELSE IF ch = "$" /\ j <= n /\ sql[j] = "$"
          THEN [s EXCEPT !.i = j + 1, !.dollarTag = SubSeq(sql, s.i, j)]
        ELSE IF ch = "?"
          THEN [s EXCEPT !.i = @ + 1, !.count = @ + 1, !.hits = @ \cup {s.i}]
        ELSE [s EXCEPT !.i = @ + 1]

RECURSIVE CountLoop(_, _, _)
CountLoop(sql, s, allowBackslashEscape) ==
    IF s.i > Len(sql) THEN s
    ELSE CountLoop(sql, CountStep(sql, s, allowBackslashEscape), allowBackslashEscape)

\* countQuestionPlaceholders with the final scanner state kept
CountScan(sql, allowBackslashEscape) ==
    IF ~HasByte(sql, "?") THEN ScanInit ELSE CountLoop(sql, ScanInit, allowBackslashEscape)

countQuestionPlaceholders(sql, allowBackslashEscape) == CountScan(sql, allowBackslashEscape).count

\* the whitespace skip "for j < n" before the operator test of a postgres '?'
RECURSIVE SkipSpace(_, _)
SkipSpace(sql, j) == IF j <= Len(sql) /\ sql[j] \in Whitespace THEN SkipSpace(sql, j + 1) ELSE j

RewriteInit(startIndex) ==
    [i |-> 1, inSingleQuote |-> FALSE, inDoubleQuote |-> FALSE, inLineComment |-> FALSE,
     inBlockComment |-> FALSE, dollarTag |-> <<>>, out |-> <<>>, nextIndex |-> startIndex,
     err |-> NoErr, hits |-> {}]

\* one iteration of the main loop of rewritePlaceholdersCommon
RewriteStep(sql, s, isPostgres) ==
    LET n == Len(sql)
        ch == sql[s.i]
        more == s.i + 1 <= n
        isMySQL == ~isPostgres
        j == TagEnd(sql, s.i + 1)
        k == SkipSpace(sql, s.i + 1)
    IN  IF s.inLineComment
          THEN [s EXCEPT !.out = Append(@, ch), !.i = @ + 1, !.inLineComment = (ch # "\n")]
        ELSE IF s.inBlockComment
          THEN IF more /\ ch = "*" /\ sql[s.i + 1] = "/"
                 THEN [s EXCEPT !.out = @ \o <<"*", "/">>, !.i = @ + 2, !.inBlockComment = FALSE]
                 ELSE [s EXCEPT !.out = Append(@, ch), !.i = @ + 1]
        ELSE IF s.dollarTag # <<>>
          THEN IF HasPrefixAt(sql, s.i, s.dollarTag)
                 THEN [s EXCEPT !.out = @ \o s.dollarTag, !.i = @ + Len(s.dollarTag),
                                !.dollarTag = <<>>]
                 ELSE [s EXCEPT !.out = Append(@, ch), !.i = @ + 1]
        ELSE IF s.inSingleQuote
          THEN LET esc == isMySQL /\ ch = "\\" /\ more
                   i2 == IF esc THEN s.i + 2 ELSE s.i + 1
                   o2 == IF esc THEN s.out \o <<ch, sql[s.i + 1]>> ELSE Append(s.out, ch)
               IN  IF ch = "'"
                     THEN IF i2 <= n /\ sql[i2] = "'"
                            THEN [s EXCEPT !.out = Append(o2, sql[i2]), !.i = i2 + 1]
                            ELSE [s EXCEPT !.out = o2, !.i = i2, !.inSingleQuote = FALSE]
                     ELSE [s EXCEPT !.out = o2, !.i = i2]
        ELSE IF s.inDoubleQuote
          THEN [s EXCEPT !.out = Append(@, ch), !.i = @ + 1, !.inDoubleQuote = (ch # "\"")]
        ELSE IF more /\ ch = "-" /\ sql[s.i + 1] = "-"
          THEN [s EXCEPT !.out = @ \o <<"-", "-">>, !.i = @ + 2, !.inLineComment = TRUE]
        ELSE IF more /\ ch = "/" /\ sql[s.i + 1] = "*"
          THEN [s EXCEPT !.out = @ \o <<"/", "*">>, !.i = @ + 2, !.inBlockComment = TRUE]
        ELSE IF ch = "'"
          THEN [s EXCEPT !.out = Append(@, "'"), !.i = @ + 1, !.inSingleQuote = TRUE]
        ELSE IF ch = "\""
          THEN [s EXCEPT !.out = Append(@, "\""), !.i = @ + 1, !.inDoubleQuote = TRUE]
        ELSE IF ch = "$" /\ j <= n /\ sql[j] = "$"
          THEN [s EXCEPT !.out = @ \o SubSeq(sql, s.i, j), !.i = j + 1,
                         !.dollarTag = SubSeq(sql, s.i, j)]
        ELSE IF ch # "?"
          THEN [s EXCEPT !.out = Append(@, ch), !.i = @ + 1]
        ELSE IF isPostgres /\ k <= n /\ sql[k] \in {"|", "&"}
          THEN [s EXCEPT !.err = ErrJsonbAny]
        ELSE IF isPostgres /\ k <= n /\ sql[k] \in {"'", "\""}
          THEN [s EXCEPT !.err = ErrJsonbExists]
        ELSE [s EXCEPT !.out = @ \o <<"$">> \o Itoa(s.nextIndex), !.nextIndex = @ + 1,
                       !.i = @ + 1, !.hits = @ \cup {s.i}]

RECURSIVE RewriteLoop(_, _, _)
RewriteLoop(sql, s, isPostgres) ==
    IF s.i > Len(sql) \/ s.err # NoErr THEN s
    ELSE RewriteLoop(sql, RewriteStep(sql, s, isPostgres), isPostgres)

\* IsSimple with the two quote characters left out of the test
IsSimple_QuotesForgotten(sql) == \A p \in 1..Len(sql) : sql[p] \notin {"-", "/", "$"}

\* "Fast path: check if SQL is simple (no quotes, comments, or dollar tags)"
IsSimple(sql) == \A p \in 1..Len(sql) : sql[p] \notin {"'", "\"", "-", "/", "$"}

\* the simple-text path: every '?' becomes $N
RECURSIVE SimpleRewrite(_, _, _)
SimpleRewrite(sql, s, p) ==
    IF p > Len(sql) THEN s
    ELSE IF sql[p] = "?"
      THEN SimpleRewrite(sql, [s EXCEPT !.out = @ \o <<"$">> \o Itoa(s.nextIndex),
                                        !.nextIndex = @ + 1, !.hits = @ \cup {p}], p + 1)
      ELSE SimpleRewrite(sql, [s EXCEPT !.out = Append(@, sql[p])], p + 1)

\* rewritePlaceholdersCommon with the final scanner state kept
RewriteScan(sql, startIndex, isPostgres) ==
    IF ~HasByte(sql, "?") /\ ~isPostgres
      THEN [RewriteInit(startIndex) EXCEPT !.out = sql]
    ELSE IF IsSimple(sql) /\ HasByte(sql, "?")
      THEN SimpleRewrite(sql, RewriteInit(startIndex), 1)
    ELSE RewriteLoop(sql, RewriteInit(startIndex), isPostgres)

\* rewritePlaceholdersCommon: (text, next index, error); on error "", startIndex, err
rewritePlaceholdersCommon(sql, startIndex, isPostgres) ==
    LET s == RewriteScan(sql, startIndex, isPostgres)
    IN  IF s.err # NoErr
          THEN [out |-> <<>>, next |-> startIndex, err |-> s.err, hits |-> {}]
          ELSE [out |-> s.out, next |-> s.nextIndex, err |-> NoErr, hits |-> s.hits]

rewritePostgresQuestionPlaceholders(sql, startIndex, allowBackslashEscape) ==
    rewritePlaceholdersCommon(sql, startIndex, TRUE)

-----------------------------------------------------------------------------
(* argBuilder: builder/arg_builder.go *)

newArgBuilder(d) ==
    [d |-> d, idx |-> 1, args |-> <<>>, usesQmark |-> (Placeholder(d, 1) = <<"?">>),
     buf |-> <<>>]

\* add with the running index left where it was
add_IndexNotAdvanced(a, v) ==
    [ab |-> [a EXCEPT !.args = Append(@, v)],
     text |-> IF a.usesQmark THEN <<"?">> ELSE Placeholder(a.d, a.idx)]

\* argBuilder.add: the argBuilder after the call; text is what add returns
add(a, v) ==
    [ab |-> [a EXCEPT !.args = Append(@, v), !.idx = @ + 1],
     text |-> IF a.usesQmark THEN <<"?">> ELSE Placeholder(a.d, a.idx)]

\* argBuilder.appendExpr: the argBuilder after the call and the error returned.
\* Kept for the claims: ran, whether a scan of the text ran ("none"), ran to its
\* end ("complete") or stopped at an operator conflict ("aborted"), and hits, the
\* positions of x.SQL whose '?' a complete scan counted or rewrote.
appendExpr(a, x) ==
    LET lead == Len(x.SQL) > 0 /\ x.SQL[1] = " "
        sql == IF lead THEN Tail(x.SQL) ELSE x.SQL
        off == IF lead THEN 1 ELSE 0
        expected == Len(x.Args)
        cs == CountScan(sql, a.d = "mysql")
        rw == rewritePostgresQuestionPlaceholders(sql, a.idx, FALSE)
        shift(hs) == {p + off : p \in hs}
        fail(err, ran, hs) == [ab |-> a, err |-> err, ran |-> ran, hits |-> shift(hs)]
    IN  IF Len(sql) = 0
          THEN fail(NoErr, "none", {})
        ELSE IF Len(a.buf) + Len(sql) > maxSQLLength
          THEN fail(ErrTooLong, "none", {})
        ELSE IF Len(x.Args) = 0
          THEN [ab |-> [a EXCEPT !.buf = @ \o sql], err |-> NoErr, ran |-> "none", hits |-> {}]
        ELSE IF ~HasByte(sql, "?")
          THEN fail(ErrMissingPlaceholders, "none", {})
        ELSE IF a.usesQmark
          THEN IF cs.count # expected
                 THEN fail(ErrCountMismatch, "complete", cs.hits)
                 ELSE [ab |-> [a EXCEPT !.buf = @ \o sql, !.args = @ \o x.Args,
                                        !.idx = @ + expected],
                       err |-> NoErr, ran |-> "complete", hits |-> shift(cs.hits)]
        ELSE IF rw.err # NoErr
          THEN fail(rw.err, "aborted", {})
        ELSE IF rw.next - a.idx # expected
          THEN fail(ErrCountMismatch, "complete", rw.hits)
        ELSE IF Len(a.buf) + Len(rw.out) > maxSQLLength
          THEN fail(ErrTooLong, "complete", rw.hits)
        ELSE [ab |-> [a EXCEPT !.buf = @ \o rw.out, !.args = @ \o x.Args, !.idx = rw.next],
              err |-> NoErr, ran |-> "complete", hits |-> shift(rw.hits)]

-----------------------------------------------------------------------------
(* SpecExpr: a fresh argBuilder of either dialect and one call of appendExpr *)

\* the argument values of a fragment of SpecExpr: "v1", "v2", ...
ArgValues == <<"v1", "v2", "v3", "v4">>

\* clause.Raw(t, v1, ..., vk)
Raw(t, k) == [SQL |-> t, Args |-> SubSeq(ArgValues, 1, k)]

\* the state after newArgBuilder(d, buf) on an empty buffer
InitExpr ==
    /\ ab \in {newArgBuilder(d) : d \in Dialects}
    /\ e = NoExpr
    /\ ret = "none"
    /\ scan = NoScan
    /\ SchemaIdle
    /\ BuildIdle
    /\ PoolIdle
    /\ BatchIdle
    /\ FuncIdle

\* ab.appendExpr(x)
AppendExpr(x) ==
    LET r == appendExpr(ab, x)
    IN  /\ ret = "none"
        /\ e' = x
        /\ ab' = r.ab
        /\ ret' = r.err
        /\ scan' = [ran |-> r.ran, hits |-> r.hits]
        /\ UNCHANGED outsideExpr

\* the text lengths a caller may hand over; none once appendExpr has returned
CallableLens == IF ret = "none" THEN 0..MaxTextLen ELSE {}

NextExpr ==
    \E n \in CallableLens : \E t \in [1..n -> Alphabet] : \E k \in 0..MaxArgs :
        AppendExpr(Raw(t, k))

SpecExpr == InitExpr /\ [][NextExpr]_vars

-----------------------------------------------------------------------------
(* The scanning modes of the placeholder compiler, as the claims state     *)
(* them: one mode per position, read off the text alone.                   *)

\* the dollar-quote tag opening at position p ($, tag characters, $), or <<>>
DollarTagAt(sql, p) ==
    LET ends == {j \in (p + 1)..Len(sql) :
                    sql[j] = "$" /\ \A q \in (p + 1)..(j - 1) : IsTagChar(sql[q])}
    IN  IF sql[p] = "$" /\ ends # {}
          THEN SubSeq(sql, p, CHOOSE j \in ends : \A j2 \in ends : j <= j2)
          ELSE <<>>

\* the positions at or after p that hold a '?' in normal mode, the scan being
\* in `mode` at p (inside a dollar-quoted region, `tag` is its tag)
RECURSIVE NormalMarkersFrom(_, _, _, _, _)
NormalMarkersFrom(sql, p, mode, tag, backslash) ==
    LET n == Len(sql)
        two == IF p + 1 <= n THEN <<sql[p], sql[p + 1]>> ELSE <<>>
        go(q, m) == NormalMarkersFrom(sql, q, m, tag, backslash)
    IN  IF p > n THEN {}
        ELSE CASE mode = "line" -> go(p + 1, IF sql[p] = "\n" THEN "normal" ELSE "line")
               [] mode = "block" ->
                    IF two = <<"*", "/">> THEN go(p + 2, "normal") ELSE go(p + 1, "block")
               [] mode = "dollar" ->
                    IF HasPrefixAt(sql, p, tag) THEN go(p + Len(tag), "normal")
                    ELSE go(p + 1, "dollar")
               [] mode = "single" ->
                    IF backslash /\ sql[p] = "\\" THEN go(p + 2, "single")
                    ELSE IF two = <<"'", "'">> THEN go(p + 2, "single")
                    ELSE go(p + 1, IF sql[p] = "'" THEN "normal" ELSE "single")
               [] mode = "double" -> go(p + 1, IF sql[p] = "\"" THEN "normal" ELSE "double")
               [] OTHER ->
                    IF two = <<"-", "-">> THEN go(p + 2, "line")
                    ELSE IF two = <<"/", "*">> THEN go(p + 2, "block")
                    ELSE IF sql[p] = "'" THEN go(p + 1, "single")
                    ELSE IF sql[p] = "\"" THEN go(p + 1, "double")
                    ELSE IF DollarTagAt(sql, p) # <<>>
                      THEN NormalMarkersFrom(sql, p + Len(DollarTagAt(sql, p)), "dollar",
                                             DollarTagAt(sql, p), backslash)
                    ELSE (IF sql[p] = "?" THEN {p} ELSE {}) \cup go(p + 1, "normal")

\* the positions of sql that hold a '?' in normal mode
NormalMarkers(sql, backslash) == NormalMarkersFrom(sql, 1, "normal", <<>>, backslash)

\* sql with the '?' at each position of marks replaced by $start, $start+1, ...
RECURSIVE Numbered(_, _, _, _)
Numbered(sql, marks, p, start) ==
    IF p > Len(sql) THEN <<>>
    ELSE IF p \in marks
      THEN <<"$">> \o Itoa(start + Cardinality({q \in marks : q < p}))
                   \o Numbered(sql, marks, p + 1, start)
      ELSE <<sql[p]>> \o Numbered(sql, marks, p + 1, start)

\* what a leading blank of a fragment shifts: appendExpr drops one
StripLead(sql) == IF Len(sql) > 0 /\ sql[1] = " " THEN Tail(sql) ELSE sql

\* the text a fragment compiles to when its normal-mode markers are the placeholders
Compiled(sql, d) ==
    IF d = "mysql" THEN StripLead(sql)
    ELSE Numbered(StripLead(sql), NormalMarkers(StripLead(sql), FALSE), 1, 1)

\* a normal-mode '?' directly followed, blanks apart, by '|', '&' or a quote
OperatorConflict(sql) ==
    \E p \in NormalMarkers(sql, FALSE) :
        \E k \in (p + 1)..Len(sql) :
            /\ sql[k] \in {"|", "&", "'", "\""}
            /\ \A q \in (p + 1)..(k - 1) : sql[q] \in Whitespace

MismatchErrors == {ErrCountMismatch, ErrMissingPlaceholders}
ConflictErrors == {ErrJsonbAny, ErrJsonbExists}

Returned == ret # "none"

\* C1: for both dialects, a fragment with exactly k normal-mode markers and k
\* arguments compiles to exactly its k placeholders (an operator conflict of C4
\* apart), and a fragment whose marker count differs from its argument count
\* fails to compile with a placeholder/argument error.
C1_CountMismatchIsAnError ==
    Returned =>
        LET kText == Cardinality(NormalMarkers(e.SQL, ab.d = "mysql"))
            conflict == ab.d = "postgres" /\ OperatorConflict(e.SQL)
        IN  IF kText = Len(e.Args)
              THEN conflict \/ (ret = NoErr /\ ab.buf = Compiled(e.SQL, ab.d)
                                            /\ ab.args = e.Args)
              ELSE ret \in MismatchErrors \cup (IF conflict THEN ConflictErrors ELSE {})

\* C2: whenever appendExpr scans a fragment to its end, the '?' it counted or
\* rewrote are exactly the '?' in normal mode; a '?' inside a literal, a quoted
\* identifier, a comment or a dollar-quoted region is copied through and does
\* not advance the argument index.
C2_OnlyNormalModeMarkers ==
    scan.ran = "complete" =>
        /\ scan.hits = NormalMarkers(e.SQL, ab.d = "mysql")
        /\ ret = NoErr =>
             /\ ab.buf = Compiled(e.SQL, ab.d)
             /\ ab.idx = 1 + Cardinality(NormalMarkers(e.SQL, ab.d = "mysql"))

\* a compiled fragment holding a '?' in normal mode and a '?' outside it
C2_Witness ==
    /\ scan.ran = "complete"
    /\ ret = NoErr
    /\ scan.hits # {}
    /\ \E p \in 1..Len(e.SQL) : e.SQL[p] = "?" /\ p \notin scan.hits

\* C4: on postgres, a fragment with at least one argument and a normal-mode '?'
\* directly followed (blanks apart) by '|', '&' or a quote fails with the
\* operator-conflict error and emits no SQL.
C4_OperatorConflictRejected ==
    (Returned /\ ab.d = "postgres" /\ Len(e.Args) >= 1 /\ OperatorConflict(e.SQL)) =>
        (ret \in ConflictErrors /\ ab.buf = <<>>)

\* C17: a fragment whose text is empty and whose argument list is not is
\* rejected by appendExpr with an error; it is not accepted as a no-op.
C17_EmptyTextWithArgsRejected ==
    (Returned /\ e.SQL = <<>> /\ Len(e.Args) > 0) => ret # NoErr

-----------------------------------------------------------------------------
(* The schema cache: schema/schema.go, ParseType.  Each goroutine runs one  *)
(* call at a time; a step is one operation on the shared sync.Map, atomic   *)
(* counter or channel, together with the local code that follows it.        *)

\* the ceiling of the cache.  The source has 1024; the model keeps the test
\* "cacheCount.Add(1) > maxSchemaCacheEntries" and scales the ceiling to the
\* number of types a behaviour can hold
maxSchemaCacheEntries == 1

\* atomic.Uint64 arithmetic, at a width the checker's integers can hold
CountWidth == 2 ^ 8
AddOne(n) == (n + 1) % CountWidth
\* cacheCount.Add(^uint64(0))
AddAllOnes(n) == (n + CountWidth - 1) % CountWidth

ErrParsePanic == "corm: schema parse panic: "

Schema(t, n) == [Type |-> t, n |-> n]

\* "return s, err" of the call goroutine p runs
Return(p, s, err) ==
    /\ hist' = [hist EXCEPT ![g[p].c] = [@ EXCEPT !.s = s, !.err = err, !.e = g[p].e, !.ret = TRUE]]
    /\ g' = [g EXCEPT ![p] = Idle]

\* the calls for type t that have started and not returned
RunningFor(t) == {g[p].c : p \in {q \in Procs : g[q].pc # "idle" /\ g[q].t = t}}

\* Goroutines outside ParseType are alike, and so are types no call has named:
\* the next call is given to the first idle goroutine, and a type not named
\* before is the first such type
FirstIdle == CHOOSE p \in Procs : g[p].pc = "idle" /\ \A q \in Procs : g[q].pc = "idle" => p <= q
FirstUnused == 1 + Cardinality({t \in Types : runs[t] > 0 \/ \E c \in 1..Len(hist) : hist[c].t = t})

\* a record of hist for a call that starts now (during: the calls for t that
\* are running; fresh: parseSlow(t) has not run before)
NewCall(t) ==
    [t |-> t, during |-> RunningFor(t), fresh |-> runs[t] = 0,
     e |-> 0, s |-> NoSchema, err |-> NoErr, ret |-> FALSE]

\* ParseType(t) called with a struct type t (the tests of lines 114-119 pass):
\* "if v, ok := cache.Load(t); ok { return v.(*Schema), nil }"
Call(p, t) ==
    /\ g[p].pc = "idle"
    /\ Len(hist) < MaxCalls
    /\ p = FirstIdle
    /\ t <= FirstUnused
    /\ IF cache[t] # NoSchema
         THEN /\ hist' = Append(hist, [NewCall(t) EXCEPT !.s = cache[t], !.ret = TRUE])
              /\ UNCHANGED g
         ELSE /\ hist' = Append(hist, NewCall(t))
              /\ g' = [g EXCEPT ![p] = [Idle EXCEPT !.pc = "group", !.c = Len(hist) + 1, !.t = t]]
    /\ UNCHANGED <<cache, cacheCount, parseGroup, entry, runs>>

\* a LoadOrStore that never finds a marker and always stores
GroupLoaded_Never(t) == FALSE

\* "actual, loaded := parseGroup.LoadOrStore(t, e)": does the map hold a marker for t
GroupLoaded(t) == parseGroup[t] # 0

\* "e := &parseEntry{...}; actual, loaded := parseGroup.LoadOrStore(t, e)"
GroupLoadOrStore(p) ==
    /\ g[p].pc = "group"
    /\ IF GroupLoaded(g[p].t)
         THEN /\ g' = [g EXCEPT ![p].pc = "wait", ![p].e = parseGroup[g[p].t]]
              /\ UNCHANGED parseGroup
         ELSE /\ parseGroup' = [parseGroup EXCEPT ![g[p].t] = g[p].c]
              /\ g' = [g EXCEPT ![p].pc = "parse", ![p].e = g[p].c]
    /\ UNCHANGED <<cache, cacheCount, entry, hist, runs>>

\* "<-e.done; if e.err != nil { return nil, e.err }; return e.s, nil"
WaitDone(p) ==
    /\ g[p].pc = "wait"
    /\ entry[g[p].e].done
    /\ IF entry[g[p].e].err # NoErr
         THEN Return(p, NoSchema, entry[g[p].e].err)
         ELSE Return(p, entry[g[p].e].s, NoErr)
    /\ UNCHANGED <<cache, cacheCount, parseGroup, entry, runs>>

\* the deferred recover of the leader: a panic of parseSlow becomes an error
Recovered(outcome) == IF outcome = "panic" THEN ErrParsePanic ELSE NoErr

\* "s, err = parseSlow(t)" under the deferred recover, and "if err != nil"
ParseSlow(p, outcome) ==
    /\ g[p].pc = "parse"
    /\ runs' = [runs EXCEPT ![g[p].t] = @ + 1]
    /\ IF Recovered(outcome) # NoErr
         THEN g' = [g EXCEPT ![p].pc = "fail", ![p].err = Recovered(outcome)]
         ELSE g' = [g EXCEPT ![p].pc = "store", ![p].s = Schema(g[p].t, runs[g[p].t] + 1)]
    /\ UNCHANGED <<cache, cacheCount, parseGroup, entry, hist>>

\* a leader that leaves done open
FailedEntry_NotClosed(err) == [done |-> FALSE, s |-> NoSchema, err |-> err]

\* a leader that closes done and leaves e.err nil
FailedEntry_ErrNotSet(err) == [done |-> TRUE, s |-> NoSchema, err |-> NoErr]

\* "e.s = nil; e.err = err; close(e.done)"
FailedEntry(err) == [done |-> TRUE, s |-> NoSchema, err |-> err]

FailPublish(p) ==
    /\ g[p].pc = "fail"
    /\ entry' = [entry EXCEPT ![g[p].e] = FailedEntry(g[p].err)]
    /\ g' = [g EXCEPT ![p].pc = "faildelete"]
    /\ UNCHANGED <<cache, cacheCount, parseGroup, hist, runs>>

\* "parseGroup.Delete(t); return nil, err"
FailDelete(p) ==
    /\ g[p].pc = "faildelete"
    /\ parseGroup' = [parseGroup EXCEPT ![g[p].t] = 0]
    /\ Return(p, NoSchema, g[p].err)
    /\ UNCHANGED <<cache, cacheCount, entry, runs>>

\* a Store in place of LoadOrStore: the leader's Schema replaces a cached one
CacheLoadOrStore_Overwrites(p) ==
    /\ g[p].pc = "store"
    /\ cache' = [cache EXCEPT ![g[p].t] = g[p].s]
    /\ g' = [g EXCEPT ![p].pc = "count"]
    /\ UNCHANGED <<cacheCount, parseGroup, entry, hist, runs>>

\* "actualS, loaded := cache.LoadOrStore(t, s); if loaded { s = actualS.(*Schema) }"
CacheLoadOrStore(p) ==
    /\ g[p].pc = "store"
    /\ IF cache[g[p].t] # NoSchema
         THEN /\ g' = [g EXCEPT ![p].pc = "publish", ![p].s = cache[g[p].t]]
              /\ UNCHANGED cache
         ELSE /\ cache' = [cache EXCEPT ![g[p].t] = g[p].s]
              /\ g' = [g EXCEPT ![p].pc = "count"]
    /\ UNCHANGED <<cacheCount, parseGroup, entry, hist, runs>>

\* "if cacheCount.Add(1) > maxSchemaCacheEntries { evicted := false"
CountAdd(p) ==
    /\ g[p].pc = "count"
    /\ cacheCount' = AddOne(cacheCount)
    /\ g' = [g EXCEPT ![p].pc = IF AddOne(cacheCount) > maxSchemaCacheEntries
                                  THEN "rangebegin" ELSE "publish",
                      ![p].evicted = FALSE]
    /\ UNCHANGED <<cache, parseGroup, entry, hist, runs>>

\* the keys of the cache
Keys == {t \in Types : cache[t] # NoSchema}

\* "cache.Range(func(k, _ any) bool {": the keys that are in the map now are
\* visited unless they are deleted meanwhile
RangeBegin(p) ==
    /\ g[p].pc = "rangebegin"
    /\ g' = [g EXCEPT ![p].pc = "range", ![p].seen = {}, ![p].must = Keys]
    /\ UNCHANGED <<cache, cacheCount, parseGroup, entry, hist, runs>>

\* Range finds key k in the map and calls the function: "if k == t { return true }"
RangeVisit(p, k) ==
    /\ g[p].pc = "range"
    /\ k \in Keys \ g[p].seen
    /\ g' = [g EXCEPT ![p].seen = @ \cup {k}, ![p].k = k,
                      ![p].pc = IF k = g[p].t THEN "range" ELSE "evict"]
    /\ UNCHANGED <<cache, cacheCount, parseGroup, entry, hist, runs>>

\* "cache.Delete(k)"
RangeDelete(p) ==
    /\ g[p].pc = "evict"
    /\ cache' = [cache EXCEPT ![g[p].k] = NoSchema]
    /\ g' = [q \in Procs |->
               IF q = p THEN [g[q] EXCEPT !.pc = "evictcount", !.must = @ \ {g[p].k}]
                        ELSE [g[q] EXCEPT !.must = @ \ {g[p].k}]]
    /\ UNCHANGED <<cacheCount, parseGroup, entry, hist, runs>>

\* "cacheCount.Add(^uint64(0)); evicted = true; return true"
RangeCount(p) ==
    /\ g[p].pc = "evictcount"
    /\ cacheCount' = AddAllOnes(cacheCount)
    /\ g' = [g EXCEPT ![p].pc = "range", ![p].evicted = TRUE, ![p].k = 0]
    /\ UNCHANGED <<cache, parseGroup, entry, hist, runs>>

\* Range returns: every key that stayed in the map since it began was visited
RangeEnd(p) ==
    /\ g[p].pc = "range"
    /\ g[p].must \subseteq g[p].seen
    /\ g' = [g EXCEPT ![p].pc = IF g[p].evicted THEN "publish" ELSE "undo",
                      ![p].seen = {}, ![p].must = {}, ![p].k = 0]
    /\ UNCHANGED <<cache, cacheCount, parseGroup, entry, hist, runs>>

\* "if !evicted { cacheCount.Add(^uint64(0)) }"
UndoCount(p) ==
    /\ g[p].pc = "undo"
    /\ cacheCount' = AddAllOnes(cacheCount)
    /\ g' = [g EXCEPT ![p].pc = "publish"]
    /\ UNCHANGED <<cache, parseGroup, entry, hist, runs>>

\* "e.s = s; e.err = nil; close(e.done)"
Publish(p) ==
    /\ g[p].pc = "publish"
    /\ entry' = [entry EXCEPT ![g[p].e] = [done |-> TRUE, s |-> g[p].s, err |-> NoErr]]
    /\ g' = [g EXCEPT ![p].pc = "delete"]
    /\ UNCHANGED <<cache, cacheCount, parseGroup, hist, runs>>

\* "parseGroup.Delete(t); return s, nil"
GroupDelete(p) ==
    /\ g[p].pc = "delete"
    /\ parseGroup' = [parseGroup EXCEPT ![g[p].t] = 0]
    /\ Return(p, g[p].s, NoErr)
    /\ UNCHANGED <<cache, cacheCount, entry, runs>>

\* the state ParseType(1), called alone at program start, leaves when it succeeds
AfterFirstParse ==
    /\ cache = [t \in Types |-> IF t = 1 THEN Schema(1, 1) ELSE NoSchema]
    /\ cacheCount = 1
    /\ parseGroup = [t \in Types |-> 0]
    /\ entry = [c \in 1..MaxCalls |-> NewEntry]
    /\ g = [p \in Procs |-> Idle]
    /\ hist = <<>>
    /\ runs = [t \in Types |-> IF t = 1 THEN 1 ELSE 0]

\* program start, or a program that has parsed one type before the calls observed
InitSchema == (SchemaIdle \/ AfterFirstParse) /\ ExprIdle /\ BuildIdle /\ PoolIdle /\ BatchIdle /\ FuncIdle

NextSchema ==
    \E p \in Procs :
        \/ \E t \in Types : Call(p, t) /\ UNCHANGED outsideSchema
        \/ GroupLoadOrStore(p) /\ UNCHANGED outsideSchema
        \/ WaitDone(p) /\ UNCHANGED outsideSchema
        \/ \E outcome \in {"ok", "panic"} : ParseSlow(p, outcome) /\ UNCHANGED outsideSchema
        \/ FailPublish(p) /\ UNCHANGED outsideSchema
        \/ FailDelete(p) /\ UNCHANGED outsideSchema
        \/ CacheLoadOrStore(p) /\ UNCHANGED outsideSchema
        \/ CountAdd(p) /\ UNCHANGED outsideSchema
        \/ RangeBegin(p) /\ UNCHANGED outsideSchema
        \/ \E k \in Types : RangeVisit(p, k) /\ UNCHANGED outsideSchema
        \/ RangeDelete(p) /\ UNCHANGED outsideSchema
        \/ RangeCount(p) /\ UNCHANGED outsideSchema
        \/ RangeEnd(p) /\ UNCHANGED outsideSchema
        \/ UndoCount(p) /\ UNCHANGED outsideSchema
        \/ Publish(p) /\ UNCHANGED outsideSchema
        \/ GroupDelete(p) /\ UNCHANGED outsideSchema

SpecSchema == InitSchema /\ [][NextSchema]_vars

-----------------------------------------------------------------------------
(* Properties of the schema cache *)

CallIds == 1..Len(hist)

\* two calls of which one started while the other was running
Overlap(c, d) == c \in hist[d].during \/ d \in hist[c].during

ReturnedSchema(c) == hist[c].ret /\ hist[c].err = NoErr

\* C7: every call of ParseType for a type that overlaps in time with another
\* call for the same type returns the same Schema (the same object) as that
\* other call, evictions by calls for other types included.
C7_OverlappingCallsShareSchema ==
    \A c, d \in CallIds :
        (hist[c].t = hist[d].t /\ Overlap(c, d) /\ ReturnedSchema(c) /\ ReturnedSchema(d))
            => hist[c].s = hist[d].s

\* C8: no two goroutines are inside parseSlow for the same type at once.
C8_OneIntrospectionAtATime ==
    \A p, q \in Procs :
        (p # q /\ g[p].pc = "parse" /\ g[q].pc = "parse") => g[p].t # g[q].t

\* a leader is inside parseSlow while another caller of the same type waits on
\* its marker, after an earlier introspection of that type
C8_Witness ==
    \E p, q \in Procs :
        /\ g[p].pc = "parse" /\ g[q].pc = "wait"
        /\ g[q].e = g[p].c
        /\ runs[g[p].t] >= 1

\* C9: when the calls for a type all overlap, started before parseSlow ever ran
\* for it, and all return a Schema, parseSlow ran exactly once for that type.
C9_ConcurrentFirstCallsParseOnce ==
    \A t \in Types :
        LET C == {c \in CallIds : hist[c].t = t}
        IN  ( /\ C # {}
              /\ \A c \in C : hist[c].fresh /\ ReturnedSchema(c)
              /\ \A c, d \in C : c # d => Overlap(c, d) )
            => runs[t] = 1

\* the error the leader that allocated marker l came out of parseSlow with
LeaderErr(l) ==
    IF hist[l].ret THEN hist[l].err
    ELSE LET p == CHOOSE q \in Procs : g[q].pc # "idle" /\ g[q].c = l IN g[p].err

\* C10: when the leader's parseSlow fails or panics, the leader and every
\* caller that waited on its marker return the leader's error, which is not
\* nil, and no Schema.
C10_FailureReachesEveryWaiter ==
    \A c \in CallIds :
        (hist[c].ret /\ hist[c].e # 0 /\ LeaderErr(hist[c].e) # NoErr)
            => /\ hist[c].err = LeaderErr(hist[c].e)
               /\ hist[c].s = NoSchema

\* a waiter and its leader have both returned the error of a panic
C10_Witness ==
    \E c, l \in CallIds :
        /\ c # l /\ hist[c].e = l
        /\ hist[c].ret /\ hist[l].ret
        /\ hist[l].err = ErrParsePanic /\ hist[c].err = ErrParsePanic

\* C11: when a leader whose introspection failed returns, its type has neither
\* a cache entry nor an in-flight marker, so the next call for the type finds
\* nothing of the failure and introspects afresh.
C11_FailureLeavesNothingBehind ==
    [][\A p \in Procs :
          (g[p].pc = "faildelete" /\ g'[p].pc = "idle")
              => /\ parseGroup'[g[p].t] = 0
                 /\ cache'[g[p].t] = NoSchema]_vars

\* no call of ParseType is in progress
Quiescent == \A p \in Procs : g[p].pc = "idle"

\* C12: whenever no call of ParseType is in progress, cacheCount is the number
\* of entries in the cache; and cacheCount never goes below zero (never wraps
\* around to the top of its range, which no count of insertions reaches).
C12_CountMatchesCache ==
    /\ cacheCount < CountWidth \div 2
    /\ Quiescent => cacheCount = Cardinality(Keys)

\* C13: whenever no call of ParseType is in progress, the cache holds at most
\* maxSchemaCacheEntries entries.
C13_CacheStaysUnderCeiling ==
    Quiescent => Cardinality(Keys) <= maxSchemaCacheEntries

\* the types parseSlow has run for: the types that were ever put in the cache
\* or were about to be
Introspected == {t \in Types : runs[t] > 0}

\* C14 as stated: every successful call of ParseType for a type returns the
\* same Schema, whatever other calls were made, so that one Schema at most is
\* ever created for the type.
C14_OneSchemaPerType ==
    \A c, d \in CallIds :
        (hist[c].t = hist[d].t /\ ReturnedSchema(c) /\ ReturnedSchema(d))
            => hist[c].s = hist[d].s

\* C14 amended: as long as the number of distinct types introspected has not
\* gone over the ceiling of the cache (nothing was evicted), every
\* successful call of ParseType for a type returns the same Schema, also when
\* parseSlow ran more than once for the type.
C14_OneSchemaUnderCeiling ==
    Cardinality(Introspected) <= maxSchemaCacheEntries => C14_OneSchemaPerType

\* two calls for one type have returned a Schema after parseSlow ran twice for
\* the type, and no other type was introspected
C14_Witness ==
    /\ Cardinality(Introspected) <= maxSchemaCacheEntries
    /\ \E c, d \in CallIds :
          /\ c # d /\ hist[c].t = hist[d].t
          /\ ReturnedSchema(c) /\ ReturnedSchema(d)
          /\ runs[hist[c].t] >= 2

-----------------------------------------------------------------------------
(* Identifier validation and quoting: builder/internal.go.  A character of *)
(* 0x80 and up is one element of NonASCII, standing for its whole rune.    *)

NonASCIILetters == {"U+00E9"}
NonASCIIOthers == {"U+00A7"}
NonASCII == NonASCIILetters \cup NonASCIIOthers

\* strings.TrimSpace
RECURSIVE TrimLeft(_)
TrimLeft(s) == IF Len(s) > 0 /\ s[1] \in Whitespace THEN TrimLeft(Tail(s)) ELSE s

RECURSIVE TrimRight(_)
TrimRight(s) ==
    IF Len(s) > 0 /\ s[Len(s)] \in Whitespace THEN TrimRight(SubSeq(s, 1, Len(s) - 1)) ELSE s

TrimSpace(s) == TrimRight(TrimLeft(s))

\* strings.ToUpper
ToUpper(s) ==
    [p \in 1..Len(s) |->
        IF \E i \in 1..26 : LowerLetters[i] = s[p]
          THEN UpperLetters[CHOOSE i \in 1..26 : LowerLetters[i] = s[p]]
          ELSE s[p]]

isASCIILetter(c) == c \in Letters
isASCIIDigit(c) == c \in Digits

\* unicode.IsLetter and unicode.IsDigit
IsLetter(c) == c \in Letters \cup NonASCIILetters
IsDigit(c) == c \in Digits

isSimpleIdentUnicode(s) ==
    \A i \in 1..Len(s) :
        IF i = 1 THEN s[i] = "_" \/ IsLetter(s[i])
        ELSE s[i] = "_" \/ IsLetter(s[i]) \/ IsDigit(s[i])

\* the loop of isSimpleIdent from position i on
RECURSIVE isSimpleIdentFrom(_, _)
isSimpleIdentFrom(s, i) ==
    IF i > Len(s) THEN TRUE
    ELSE IF i = 1 THEN
        IF s[i] # "_" /\ ~isASCIILetter(s[i])
          THEN IF s[i] \in NonASCII THEN IsLetter(s[i]) ELSE FALSE
          ELSE isSimpleIdentFrom(s, i + 1)
    ELSE IF s[i] # "_" /\ ~isASCIILetter(s[i]) /\ ~isASCIIDigit(s[i])
          THEN IF s[i] \in NonASCII THEN isSimpleIdentUnicode(s) ELSE FALSE
          ELSE isSimpleIdentFrom(s, i + 1)

isSimpleIdent(s) == IF s = <<>> THEN FALSE ELSE isSimpleIdentFrom(s, 1)

\* the characters quoteIdentWithStar refuses anywhere in an identifier
DenyChars ==
    {" ", "(", ")", "+", "-", "/", "*", ",", "%", "<", ">", "=", "!", "|", "&",
     "^", "~", "?", ":", ";", "\"", Backquote}

ContainsAny(s, cs) == \E p \in 1..Len(s) : s[p] \in cs

NotOk == [q |-> <<>>, ok |-> FALSE]
Quoted(q) == [q |-> q, ok |-> TRUE]

\* a nil dialect.Dialect
NilDialect == "nil"

\* the dotted branch of quoteIdentWithStar: the part that began at start ends
\* before i when i is a dot or the end of ident
RECURSIVE QuoteParts(_, _, _, _, _, _)
QuoteParts(d, ident, allowStar, start, i, buf) ==
    IF i > Len(ident) + 1 THEN Quoted(buf)
    ELSE IF i = Len(ident) + 1 \/ ident[i] = "."
      THEN LET part == SubSeq(ident, start, i - 1)
               sep == IF Len(buf) > 0 THEN <<".">> ELSE <<>>
           IN  IF part = <<>> THEN NotOk
               ELSE IF allowStar /\ part = <<"*">>
                 THEN IF i # Len(ident) + 1 THEN NotOk
                      ELSE QuoteParts(d, ident, allowStar, i + 1, i + 1, buf \o sep \o <<"*">>)
               ELSE IF ~isSimpleIdent(part) THEN NotOk
               ELSE QuoteParts(d, ident, allowStar, i + 1, i + 1,
                               buf \o sep \o QuoteIdent(d, part))
    ELSE QuoteParts(d, ident, allowStar, start, i + 1, buf)

quoteIdentWithStar(d, raw, allowStar) ==
    LET ident == TrimSpace(raw)
    IN  IF ident = <<>> THEN NotOk
        ELSE IF d = NilDialect THEN NotOk
        ELSE IF allowStar /\ ident = <<"*">> THEN Quoted(<<"*">>)
        ELSE IF ContainsAny(ident, DenyChars) THEN NotOk
        ELSE IF ~HasByte(ident, ".")
          THEN IF ~isSimpleIdent(ident) THEN NotOk ELSE Quoted(QuoteIdent(d, ident))
        ELSE QuoteParts(d, ident, allowStar, 1, 1, <<>>)

quoteSelectColumnStrict(d, ident) == quoteIdentWithStar(d, ident, TRUE)
quoteIdentStrict(d, ident) == quoteIdentWithStar(d, ident, FALSE)
quoteTableStrict(d, ident) == quoteIdentStrict(d, ident)

ErrMissingTableName == "corm: missing table name"
ErrNilDialect == "corm: nil dialect"
ErrInvalidTable == "corm: invalid table identifier"
ErrInvalidColumn == "corm: invalid column identifier"
ErrInvalidAlias == "corm: invalid alias identifier"
ErrNilSubquery == "corm: nil subquery"

validateTable(d, raw) ==
    LET table == TrimSpace(raw)
        r == quoteTableStrict(d, table)
    IN  IF table = <<>> THEN [q |-> <<>>, err |-> ErrMissingTableName]
        ELSE IF d = NilDialect THEN [q |-> <<>>, err |-> ErrNilDialect]
        ELSE IF ~r.ok THEN [q |-> <<>>, err |-> ErrInvalidTable]
        ELSE [q |-> r.q, err |-> NoErr]

quoteColumnStrict(d, raw) ==
    LET column == TrimSpace(raw)
    IN  IF column = <<>> \/ column = <<"*">> \/ HasByte(column, ".") THEN NotOk
        ELSE IF d = NilDialect THEN NotOk
        ELSE IF ContainsAny(column, DenyChars \ {"\"", Backquote}) THEN NotOk
        ELSE IF HasByte(column, "\"") \/ HasByte(column, Backquote) THEN NotOk
        ELSE IF ~isSimpleIdent(column) THEN NotOk
        ELSE Quoted(QuoteIdent(d, column))

SubqueryOps ==
    {<<"=">>, <<"!", "=">>, <<"<", ">">>, <<">">>, <<"<">>, <<">", "=">>, <<"<", "=">>, <<"I", "N">>, <<"N", "O", "T", " ", "I", "N">>, <<"L", "I", "K", "E">>,
     <<"N", "O", "T", " ", "L", "I", "K", "E">>}

normalizeSubqueryOp(op) ==
    LET up == TrimSpace(ToUpper(op))
    IN  IF up \in SubqueryOps THEN Quoted(up) ELSE NotOk

-----------------------------------------------------------------------------
(* The statement builders: builder/select.go, builder/select_exec.go       *)
(* (UpdateBuilder), builder/delete.go and builder/where.go.  One record    *)
(* shape serves the three builders; a builder holds another by its name    *)
(* in bld, NilBuilder for a nil pointer.  An UpdateBuilder holds its      *)
(* batchUpdateBuilder in batch, NilBatch while it has none.                *)

\* clause.Eq(column, value)
Eq(column, value) == [SQL |-> column \o <<" ", "=", " ", "?">>, Args |-> <<value>>]

\* clause.Raw(sql, args...) with the arguments given as a sequence
RawArgs(sql, args) == [SQL |-> sql, Args |-> args]

\* the zero clause.Expr
ZeroExpr == [SQL |-> <<>>, Args |-> <<>>]

\* a nil *SelectBuilder
NilBuilder == "nil"

\* a nil *int and a pointer to n
NilInt == [set |-> FALSE, v |-> 0]
IntPtr(n) == [set |-> TRUE, v |-> n]

whereExpr == "whereExpr"
whereSubquery == "whereSubquery"
selectColumnIdent == "selectColumnIdent"
selectColumnExpr == "selectColumnExpr"
selectJoinExpr == "selectJoinExpr"
selectJoinSubquery == "selectJoinSubquery"

WhereExprItem(x) == [kind |-> whereExpr, expr |-> x, column |-> <<>>, op |-> <<>>, sub |-> NilBuilder]
WhereSubqueryItem(column, op, sub) ==
    [kind |-> whereSubquery, expr |-> ZeroExpr, column |-> column, op |-> op, sub |-> sub]

\* whereBuilder{d: d}
newWhereBuilder(d) == [d |-> d, items |-> <<>>, err |-> NoErr]

\* the batch of an UpdateBuilder that has none
NilBatch == [d |-> "nil batch"]

ZeroBuilder(kind, d) ==
    [kind |-> kind, d |-> d, columns |-> <<>>, fromTable |-> <<>>, fromSub |-> NilBuilder,
     fromAlias |-> <<>>, joins |-> <<>>, where |-> newWhereBuilder(d), groupBy |-> <<>>,
     having |-> <<>>, orderBy |-> <<>>, limit |-> NilInt, offset |-> NilInt,
     distinct |-> FALSE, forUpdate |-> FALSE, unions |-> <<>>, err |-> NoErr,
     table |-> <<>>, sets |-> <<>>, allowEmptyWhere |-> FALSE,
     includePrimaryKey |-> FALSE, includeAuto |-> FALSE, includeReadonly |-> FALSE,
     includeZero |-> FALSE, batch |-> NilBatch]

newSelect(d, columns) ==
    [ZeroBuilder("select", d) EXCEPT
        !.columns = [i \in 1..Len(columns) |->
                        [kind |-> selectColumnIdent, ident |-> columns[i], expr |-> ZeroExpr]]]

\* newUpdate and newDelete
newTableBuilder(kind, d, raw) ==
    LET table == TrimSpace(raw)
    IN  [ZeroBuilder(kind, d) EXCEPT
            !.table = table,
            !.err = IF table # <<>> /\ d # NilDialect /\ ~quoteIdentStrict(d, table).ok
                      THEN ErrInvalidTable ELSE NoErr]

newUpdate(d, table) == newTableBuilder("update", d, table)
newDelete(d, table) == newTableBuilder("delete", d, table)

(* whereBuilder methods: the whereBuilder after the call *)

wbWhere(wb, sql, args) ==
    IF wb.err # NoErr THEN wb
    ELSE IF TrimSpace(sql) = <<>> THEN wb
    ELSE [wb EXCEPT !.items = Append(@, WhereExprItem(RawArgs(TrimSpace(sql), args)))]

wbWhereEq(wb, column, value) ==
    LET col == quoteIdentStrict(wb.d, column)
    IN  IF wb.err # NoErr THEN wb
        ELSE IF ~col.ok THEN [wb EXCEPT !.err = ErrInvalidColumn]
        ELSE [wb EXCEPT !.items = Append(@, WhereExprItem(Eq(col.q, value)))]

ErrInvalidOperator == "corm: invalid operator"

wbWhereSubquery(wb, column, op, sub) ==
    LET o == normalizeSubqueryOp(op)
    IN  IF wb.err # NoErr THEN wb
        ELSE IF sub = NilBuilder THEN [wb EXCEPT !.err = ErrNilSubquery]
        ELSE IF ~quoteIdentStrict(wb.d, column).ok THEN [wb EXCEPT !.err = ErrInvalidColumn]
        ELSE IF ~o.ok THEN [wb EXCEPT !.err = ErrInvalidOperator]
        ELSE [wb EXCEPT !.items = Append(@, WhereSubqueryItem(column, o.q, sub))]

wbWhereInSubquery(wb, column, sub) == wbWhereSubquery(wb, column, <<"I", "N">>, sub)

wbWhereExpr(wb, x) ==
    IF wb.err # NoErr THEN wb
    ELSE IF TrimSpace(x.SQL) = <<>> THEN wb
    ELSE [wb EXCEPT !.items = Append(@, WhereExprItem(x))]

(* Builder methods: the builder after the call.  The where methods of the *)
(* three builders are the same wrapper around the whereBuilder's.         *)

\* b.where.M(...) has made wb of b.where; b.err takes over its error
WhereCall(b, wb) ==
    [b EXCEPT !.where = wb, !.err = IF wb.err # NoErr THEN wb.err ELSE @]

Where(b, sql, args) ==
    IF b.err # NoErr THEN b ELSE [b EXCEPT !.where = wbWhere(b.where, sql, args)]

WhereEq(b, column, value) ==
    IF b.err # NoErr THEN b ELSE WhereCall(b, wbWhereEq(b.where, column, value))

WhereInSubquery(b, column, sub) ==
    IF b.err # NoErr THEN b ELSE WhereCall(b, wbWhereInSubquery(b.where, column, sub))

WhereExpr(b, x) ==
    IF b.err # NoErr THEN b ELSE WhereCall(b, wbWhereExpr(b.where, x))

From(b, table) ==
    LET v == validateTable(b.d, table)
    IN  IF b.err # NoErr THEN b
        ELSE IF v.err # NoErr THEN [b EXCEPT !.err = v.err]
        ELSE [b EXCEPT !.fromTable = v.q, !.fromSub = NilBuilder, !.fromAlias = <<>>]

FromSelect(b, sub, raw) ==
    LET alias == TrimSpace(raw)
    IN  IF b.err # NoErr THEN b
        ELSE IF sub = NilBuilder THEN [b EXCEPT !.err = ErrNilSubquery]
        ELSE IF ~isSimpleIdent(alias) THEN [b EXCEPT !.err = ErrInvalidAlias]
        ELSE [b EXCEPT !.fromTable = <<>>, !.fromSub = sub, !.fromAlias = alias]

ErrEmptyJoin == "corm: empty join condition"

joinSelectAs(b, joinType, sub, raw, onExpr) ==
    LET alias == TrimSpace(raw)
    IN  IF b.err # NoErr THEN b
        ELSE IF sub = NilBuilder THEN [b EXCEPT !.err = ErrNilSubquery]
        ELSE IF TrimSpace(onExpr.SQL) = <<>> THEN [b EXCEPT !.err = ErrEmptyJoin]
        ELSE IF ~isSimpleIdent(alias) THEN [b EXCEPT !.err = ErrInvalidAlias]
        ELSE [b EXCEPT !.joins = Append(@,
                [kind |-> selectJoinSubquery, joinType |-> joinType, sub |-> sub,
                 alias |-> alias, on |-> onExpr, expr |-> ZeroExpr])]

JoinSelectAs(b, sub, alias, onExpr) == joinSelectAs(b, <<"J", "O", "I", "N">>, sub, alias, onExpr)

union(b, op, other) ==
    IF b.err # NoErr THEN b
    ELSE IF other = NilBuilder THEN [b EXCEPT !.err = ErrNilSubquery]
    ELSE [b EXCEPT !.unions = Append(@, [op |-> op, sub |-> other])]

Union(b, other) == union(b, <<"U", "N", "I", "O", "N">>, other)

UnionAll(b, other) == union(b, <<"U", "N", "I", "O", "N", " ", "A", "L", "L">>, other)

\* SelectBuilder.ForUpdate
ForUpdate(b) == [b EXCEPT !.forUpdate = TRUE]

\* SelectBuilder.Limit and SelectBuilder.Offset
SelectLimit(b, limit) == [b EXCEPT !.limit = IntPtr(IF limit < 0 THEN 0 ELSE limit)]
Offset(b, offset) == [b EXCEPT !.offset = IntPtr(IF offset < 0 THEN 0 ELSE offset)]

\* UpdateBuilder.Limit
UpdateLimit(b, limit) == [b EXCEPT !.limit = IntPtr(limit)]

\* DeleteBuilder.Limit
DeleteLimit(b, limit) == IF b.err # NoErr THEN b ELSE [b EXCEPT !.limit = IntPtr(limit)]

\* UpdateBuilder.AllowEmptyWhere and DeleteBuilder.AllowEmptyWhere
AllowEmptyWhere(b) == [b EXCEPT !.allowEmptyWhere = TRUE]

ErrSetOnBatch == "corm: cannot use Set on batch update, use Models/Maps"

\* UpdateBuilder.Set
Set(b, column, value) ==
    IF b.err # NoErr THEN b
    ELSE IF b.batch # NilBatch THEN [b EXCEPT !.err = ErrSetOnBatch]
    ELSE IF ~quoteColumnStrict(b.d, column).ok THEN [b EXCEPT !.err = ErrInvalidColumn]
    ELSE [b EXCEPT !.sets = Append(@, [column |-> column, value |-> value])]

-----------------------------------------------------------------------------
(* Compilation.  What a compile function does to the strings.Builder and   *)
(* the argBuilder of one SQL() call is the sequence of its steps, in the   *)
(* order the code takes them: buf.WriteString(s), buf.WriteString(         *)
(* ab.add(v)), ab.appendExpr(x) and return err.  Which steps a function    *)
(* takes depends on the builder alone; Run takes them one after another    *)
(* and stops at the first error.                                           *)

WriteString(s) == [kind |-> "WriteString", s |-> s, x |-> ZeroExpr, v |-> 0, err |-> NoErr]
WriteAdd(v) == [kind |-> "add", s |-> <<>>, x |-> ZeroExpr, v |-> v, err |-> NoErr]
AppendExprStep(x) == [kind |-> "appendExpr", s |-> <<>>, x |-> x, v |-> 0, err |-> NoErr]
ReturnErr(err) == [kind |-> "return", s |-> <<>>, x |-> ZeroExpr, v |-> 0, err |-> err]

Ok(a) == [ab |-> a, err |-> NoErr]
Fail(a, err) == [ab |-> a, err |-> err]

\* the result of appendExpr as a step's
StepResult(r) == [ab |-> r.ab, err |-> r.err]

\* the text add returns, written to the buffer
Written(r) == [r.ab EXCEPT !.buf = @ \o r.text]

\* one step on the argBuilder a
Step(a, p) ==
    CASE p.kind = "WriteString" -> Ok([a EXCEPT !.buf = @ \o p.s])
      [] p.kind = "add" -> Ok(Written(add(a, p.v)))
      [] p.kind = "appendExpr" -> StepResult(appendExpr(a, p.x))
      [] OTHER -> Fail(a, p.err)

RECURSIVE Run(_, _, _)

\* r is what step i - 1 left
RunOn(r, steps, i) == IF r.err # NoErr THEN r ELSE Run(r.ab, steps, i)

\* the steps from the i-th on
Run(a, steps, i) == IF i > Len(steps) THEN Ok(a) ELSE RunOn(Step(a, steps[i]), steps, i + 1)

ErrMissingSelectTable == "corm: missing table for select"
ErrInvalidSelectColumn ==
    "corm: invalid select column identifier, use SelectExpr for expressions"
ErrInvalidSelectColumnKind == "corm: invalid select column kind"
ErrInvalidJoinKind == "corm: invalid join kind"
ErrInvalidWhereKind == "corm: invalid where kind"
ErrAllWhereEmpty == "corm: all WHERE expressions are empty"
ErrEmptyHaving == "corm: empty HAVING expression"
ErrForUpdateUnion == "corm: FOR UPDATE with UNION is not supported"

\* ", " before every element of a list but the first
Comma(i) == IF i > 1 THEN <<WriteString(<<",", " ">>)>> ELSE <<>>

\* the column loop of appendSQL from column i on
RECURSIVE appendColumns(_, _)
appendColumns(b, i) ==
    LET c == b.columns[i]
        q == quoteSelectColumnStrict(b.d, c.ident)
    IN  IF i > Len(b.columns) THEN <<>>
        ELSE IF c.kind = selectColumnIdent
          THEN IF ~q.ok THEN Comma(i) \o <<ReturnErr(ErrInvalidSelectColumn)>>
               ELSE Comma(i) \o <<WriteString(q.q)>> \o appendColumns(b, i + 1)
        ELSE IF c.kind = selectColumnExpr
          THEN Comma(i) \o <<AppendExprStep(c.expr)>> \o appendColumns(b, i + 1)
        ELSE Comma(i) \o <<ReturnErr(ErrInvalidSelectColumnKind)>>

\* the GROUP BY loop
RECURSIVE appendGroupBy(_, _)
appendGroupBy(b, i) ==
    IF i > Len(b.groupBy) THEN <<>>
    ELSE Comma(i) \o <<WriteString(b.groupBy[i])>> \o appendGroupBy(b, i + 1)

\* the HAVING loop
RECURSIVE appendHaving(_, _)
appendHaving(b, i) ==
    IF i > Len(b.having) THEN <<>>
    ELSE IF TrimSpace(b.having[i].SQL) = <<>> THEN <<ReturnErr(ErrEmptyHaving)>>
    ELSE (IF i > 1 THEN <<WriteString(<<" ", "A", "N", "D", " ">>)>> ELSE <<>>)
         \o <<WriteString(<<"(">>), AppendExprStep(b.having[i]), WriteString(<<")">>)>>
         \o appendHaving(b, i + 1)

\* the ORDER BY loop
RECURSIVE appendOrderBy(_, _)
appendOrderBy(b, i) ==
    IF i > Len(b.orderBy) THEN <<>>
    ELSE Comma(i) \o <<AppendExprStep(b.orderBy[i])>> \o appendOrderBy(b, i + 1)

RECURSIVE appendSQL(_, _)
RECURSIVE appendJoins(_, _, _)
RECURSIVE appendWhereItems(_, _, _, _)
RECURSIVE appendUnions(_, _, _)

\* the join loop of appendSQL from join i on; B is the builders
appendJoins(B, b, i) ==
    LET j == b.joins[i]
    IN  IF i > Len(b.joins) THEN <<>>
        ELSE IF j.kind = selectJoinExpr
          THEN <<WriteString(<<" ">>), AppendExprStep(j.expr)>> \o appendJoins(B, b, i + 1)
        ELSE IF j.kind = selectJoinSubquery
          THEN IF j.sub = NilBuilder THEN <<WriteString(<<" ">>), ReturnErr(ErrNilSubquery)>>
               ELSE <<WriteString(<<" ">>), WriteString(j.joinType), WriteString(<<"(">>)>>
                    \o appendSQL(B, j.sub)
                    \o <<WriteString(<<")", " ", "A", "S", " ">>), WriteString(j.alias), WriteString(<<" ", "O", "N", " ">>),
                         AppendExprStep(j.on)>>
                    \o appendJoins(B, b, i + 1)
        ELSE <<WriteString(<<" ">>), ReturnErr(ErrInvalidJoinKind)>>

\* the item loop of appendWhere from item i on, wrote items written so far
appendWhereItems(B, wb, i, wrote) ==
    LET w == wb.items[i]
        and == IF wrote > 0 THEN <<WriteString(<<" ", "A", "N", "D", " ">>)>> ELSE <<>>
        col == quoteIdentStrict(wb.d, w.column)
    IN  IF i > Len(wb.items)
          THEN IF wrote = 0 THEN <<ReturnErr(ErrAllWhereEmpty)>> ELSE <<>>
        ELSE IF w.kind = whereExpr
          THEN IF TrimSpace(w.expr.SQL) = <<>> THEN appendWhereItems(B, wb, i + 1, wrote)
               ELSE and \o <<WriteString(<<"(">>), AppendExprStep(w.expr), WriteString(<<")">>)>>
                        \o appendWhereItems(B, wb, i + 1, wrote + 1)
        ELSE IF w.kind = whereSubquery
          THEN IF w.sub = NilBuilder THEN <<ReturnErr(ErrNilSubquery)>>
               ELSE IF ~col.ok THEN <<ReturnErr(ErrInvalidColumn)>>
               ELSE and \o <<WriteString(<<"(">>), WriteString(col.q), WriteString(<<" ">>),
                              WriteString(w.op), WriteString(<<" ", "(">>)>>
                        \o appendSQL(B, w.sub)
                        \o <<WriteString(<<")", ")">>)>>
                        \o appendWhereItems(B, wb, i + 1, wrote + 1)
        ELSE <<ReturnErr(ErrInvalidWhereKind)>>

\* whereBuilder.appendWhere
appendWhere(B, wb) ==
    IF Len(wb.items) = 0 THEN <<>>
    ELSE <<WriteString(<<" ", "W", "H", "E", "R", "E", " ">>)>> \o appendWhereItems(B, wb, 1, 0)

\* whereBuilder.appendAndWhere from item i on
RECURSIVE appendAndWhereItems(_, _, _)
appendAndWhereItems(B, wb, i) ==
    LET w == wb.items[i]
        col == quoteIdentStrict(wb.d, w.column)
    IN  IF i > Len(wb.items) THEN <<>>
        ELSE IF w.kind = whereExpr
          THEN IF TrimSpace(w.expr.SQL) = <<>> THEN appendAndWhereItems(B, wb, i + 1)
               ELSE <<WriteString(<<" ", "A", "N", "D", " ", "(">>), AppendExprStep(w.expr),
                      WriteString(<<")">>)>>
                    \o appendAndWhereItems(B, wb, i + 1)
        ELSE IF w.kind = whereSubquery
          THEN IF w.sub = NilBuilder THEN <<ReturnErr(ErrNilSubquery)>>
               ELSE IF ~col.ok THEN <<ReturnErr(ErrInvalidColumn)>>
               ELSE <<WriteString(<<" ", "A", "N", "D", " ", "(">>), WriteString(col.q),
                      WriteString(<<" ">>), WriteString(w.op), WriteString(<<" ", "(">>)>>
                    \o appendSQL(B, w.sub)
                    \o <<WriteString(<<")", ")">>)>>
                    \o appendAndWhereItems(B, wb, i + 1)
        ELSE <<ReturnErr(ErrInvalidWhereKind)>>

\* whereBuilder.appendAndWhere
appendAndWhere(B, wb) == appendAndWhereItems(B, wb, 1)

\* the union loop of appendSQL from union i on
appendUnions(B, b, i) ==
    LET u == b.unions[i]
    IN  IF i > Len(b.unions) THEN <<>>
        ELSE IF u.sub = NilBuilder THEN <<ReturnErr(ErrNilSubquery)>>
        ELSE <<WriteString(<<" ">>), WriteString(u.op), WriteString(<<" ", "(">>)>>
             \o appendSQL(B, u.sub)
             \o <<WriteString(<<")">>)>>
             \o appendUnions(B, b, i + 1)

\* SelectBuilder.appendSQL of builder id
appendSQL(B, id) ==
    LET b == B[id]
    IN  IF TrimSpace(b.fromTable) = <<>> /\ b.fromSub = NilBuilder
          THEN <<ReturnErr(ErrMissingSelectTable)>>
        ELSE <<WriteString(<<"S", "E", "L", "E", "C", "T", " ">>)>>
             \o (IF b.distinct THEN <<WriteString(<<"D", "I", "S", "T", "I", "N", "C", "T", " ">>)>> ELSE <<>>)
             \o (IF Len(b.columns) = 0 THEN <<WriteString(<<"*">>)>> ELSE appendColumns(b, 1))
             \o <<WriteString(<<" ", "F", "R", "O", "M", " ">>)>>
             \o (IF b.fromSub # NilBuilder
                   THEN <<WriteString(<<"(">>)>> \o appendSQL(B, b.fromSub)
                        \o <<WriteString(<<")", " ", "A", "S", " ">>), WriteString(b.fromAlias)>>
                   ELSE <<WriteString(b.fromTable)>>)
             \o appendJoins(B, b, 1)
             \o appendWhere(B, b.where)
             \o (IF Len(b.groupBy) > 0
                   THEN <<WriteString(<<" ", "G", "R", "O", "U", "P", " ", "B", "Y", " ">>)>> \o appendGroupBy(b, 1) ELSE <<>>)
             \o (IF Len(b.having) > 0
                   THEN <<WriteString(<<" ", "H", "A", "V", "I", "N", "G", " ">>)>> \o appendHaving(b, 1) ELSE <<>>)
             \o appendUnions(B, b, 1)
             \o (IF Len(b.unions) > 0 /\ b.forUpdate
                   THEN <<ReturnErr(ErrForUpdateUnion)>> ELSE <<>>)
             \o (IF Len(b.orderBy) > 0
                   THEN <<WriteString(<<" ", "O", "R", "D", "E", "R", " ", "B", "Y", " ">>)>> \o appendOrderBy(b, 1) ELSE <<>>)
             \o (IF b.limit.set THEN <<WriteString(<<" ", "L", "I", "M", "I", "T", " ">>), WriteAdd(b.limit.v)>> ELSE <<>>)
             \o (IF b.offset.set
                   THEN <<WriteString(<<" ", "O", "F", "F", "S", "E", "T", " ">>), WriteAdd(b.offset.v)>> ELSE <<>>)
             \o (IF b.forUpdate THEN <<WriteString(<<" ", "F", "O", "R", " ", "U", "P", "D", "A", "T", "E">>)>> ELSE <<>>)

\* what SQL() returns
Returns(sql, args, err) == [sql |-> sql, args |-> args, err |-> err]
Failure(err) == Returns(<<>>, <<>>, err)

\* the end of SQL(), r what the steps left
SQLReturn(r) == IF r.err # NoErr THEN Failure(r.err) ELSE Returns(r.ab.buf, r.ab.args, NoErr)

\* a SQL() that compiles whatever the builder recorded
SelectSQL_ErrIgnored(B, id) ==
    IF B[id].d = NilDialect THEN Failure(ErrNilDialect)
    ELSE SQLReturn(Run(newArgBuilder(B[id].d), appendSQL(B, id), 1))

\* SelectBuilder.SQL of builder id
SelectSQL(B, id) ==
    IF B[id].err # NoErr THEN Failure(B[id].err)
    ELSE IF B[id].d = NilDialect THEN Failure(ErrNilDialect)
    ELSE SQLReturn(Run(newArgBuilder(B[id].d), appendSQL(B, id), 1))

ErrMissingUpdateTable == "corm: missing table for update"
ErrMissingDeleteTable == "corm: missing table for delete"
ErrMissingSet == "corm: missing set values for update"
ErrUpdateWithoutWhere ==
    "corm: update without where clause is not allowed, use AllowEmptyWhere() to override"
ErrDeleteWithoutWhere ==
    "corm: delete without where clause is not allowed, use AllowEmptyWhere() to override"
ErrInvalidLimit == "corm: invalid limit"
ErrUpdateLimit == "corm: update limit is only supported by mysql dialect"
ErrDeleteLimit == "corm: delete limit is only supported by mysql dialect"

\* the SET loop of UpdateBuilder.SQL from entry i on; every value is a plain
\* value, none a clause.Expr
RECURSIVE appendSets(_, _)
appendSets(b, i) ==
    LET col == quoteColumnStrict(b.d, b.sets[i].column)
    IN  IF i > Len(b.sets) THEN <<>>
        ELSE IF ~col.ok THEN Comma(i) \o <<ReturnErr(ErrInvalidColumn)>>
        ELSE Comma(i) \o <<WriteString(col.q), WriteString(<<" ", "=", " ">>), WriteAdd(b.sets[i].value)>>
             \o appendSets(b, i + 1)

\* the guard with the override read the wrong way round
EmptyWhereRefused_FlagInverted(b) == b.allowEmptyWhere /\ Len(b.where.items) = 0

\* the guard of UpdateBuilder.SQL and DeleteBuilder.SQL against a statement
\* that would touch every row
EmptyWhereRefused(b) == ~b.allowEmptyWhere /\ Len(b.where.items) = 0

\* the end of UpdateBuilder.SQL and DeleteBuilder.SQL: the guard, then the LIMIT
GuardAndLimit(b, errEmpty, errDialect) ==
    IF EmptyWhereRefused(b) THEN <<ReturnErr(errEmpty)>>
    ELSE IF ~b.limit.set THEN <<>>
    ELSE IF b.limit.v < 0 THEN <<ReturnErr(ErrInvalidLimit)>>
    ELSE IF b.d # "mysql" THEN <<ReturnErr(errDialect)>>
    ELSE <<WriteString(<<" ", "L", "I", "M", "I", "T", " ">>), WriteAdd(b.limit.v)>>

\* the table name UpdateBuilder.SQL and DeleteBuilder.SQL write
TableStep(b) ==
    LET qTable == quoteIdentStrict(b.d, b.table)
    IN  IF ~qTable.ok THEN ReturnErr(ErrInvalidTable) ELSE WriteString(qTable.q)

-----------------------------------------------------------------------------
(* Rows from structs and maps: schema/schema.go, builder/batch_update.go.  *)
(* A struct value is a record from field names to values and a map a       *)
(* function from column names to values.  Values are integers; 0 is the    *)
(* zero value of every field type.                                         *)

\* strings.ToLower
ToLower(s) ==
    [p \in 1..Len(s) |->
        IF \E i \in 1..26 : UpperLetters[i] = s[p]
          THEN LowerLetters[CHOOSE i \in 1..26 : UpperLetters[i] = s[p]]
          ELSE s[p]]

\* strings.EqualFold, of ASCII names
EqualFold(s, t) == ToLower(s) = ToLower(t)

StripQuotes(s) == SelectSeq(s, LAMBDA c : c \notin {"\"", Backquote})

AfterLastDot(s) ==
    IF ~HasByte(s, ".") THEN s
    ELSE LET p == CHOOSE p \in 1..Len(s) : s[p] = "." /\ \A q \in (p + 1)..Len(s) : s[q] # "."
         IN  SubSeq(s, p + 1, Len(s))

\* internal.NormalizeColumn as the table of TestNormalizeColumn has it: white
\* space trimmed, quotes dropped, the part after the last dot, in lower case
NormalizeColumn(s) == ToLower(AfterLastDot(StripQuotes(TrimSpace(s))))

\* the bytes of the model's strings in ascending order
ByteOrder ==
    <<" ", "\"", "$", "'", "*", "-", ".", "/">> \o DigitOf \o <<";", "=", "?">>
        \o UpperLetters \o <<"\\", "_", Backquote>> \o LowerLetters \o <<"|">>
ByteRank(c) == CHOOSE k \in 1..Len(ByteOrder) : ByteOrder[k] = c

RECURSIVE StringLess(_, _)
StringLess(s, t) ==
    IF s = <<>> THEN t # <<>>
    ELSE IF t = <<>> THEN FALSE
    ELSE IF s[1] = t[1] THEN StringLess(Tail(s), Tail(t))
    ELSE ByteRank(s[1]) < ByteRank(t[1])

\* sort.Strings of the names in S
RECURSIVE SortStrings(_)
SortStrings(S) ==
    IF S = {} THEN <<>>
    ELSE LET m == CHOOSE m \in S : \A x \in S \ {m} : StringLess(m, x)
         IN  <<m>> \o SortStrings(S \ {m})

\* the least index in I
First(I) == CHOOSE i \in I : \A j \in I : i <= j

NilField ==
    [Name |-> "", Column |-> <<>>, PrimaryKey |-> FALSE, Auto |-> FALSE,
     Readonly |-> FALSE, OmitEmpty |-> FALSE]

NilType == "nil"

ColID == <<"i", "d">>
ColName == <<"n", "a", "m", "e">>
ColAge == <<"a", "g", "e">>
TableUsers == <<"u", "s", "e", "r", "s">>

\* the Schema ParseType makes of BatchUpdateUser
BatchUpdateUser ==
    [Type |-> "BatchUpdateUser",
     Table |-> TableUsers,
     Fields |-> <<[NilField EXCEPT !.Name = "ID", !.Column = ColID, !.PrimaryKey = TRUE],
                  [NilField EXCEPT !.Name = "Name", !.Column = ColName],
                  [NilField EXCEPT !.Name = "Age", !.Column = ColAge, !.OmitEmpty = TRUE]>>]

\* s.ByColumn[key]
ByColumn(s, key) ==
    LET at == {i \in 1..Len(s.Fields) : ToLower(s.Fields[i].Column) = key}
    IN  IF at = {} THEN NilField ELSE s.Fields[First(at)]

\* a test that finds no value zero
IsZero_Never(fv) == FALSE

\* reflect.Value.IsZero of a field value
IsZero(fv) == fv = 0

\* whether Schema.ColumnsAndValues and batchUpdateFieldsForSchema pass over
\* field f under the Include flags of opts
FieldSkipped(f, opts) ==
    \/ f.Readonly /\ ~opts.includeReadonly
    \/ f.Auto /\ ~opts.includeAuto
    \/ f.PrimaryKey /\ ~opts.includePrimaryKey

\* Schema.ColumnsAndValues of the struct dest: the fields written, in field
\* order; the column of each is its Column and the value dest[f.Name]
ColumnsAndValues(s, dest, opts) ==
    SelectSeq(s.Fields,
              LAMBDA f : /\ ~FieldSkipped(f, opts)
                         /\ ~(f.OmitEmpty /\ ~opts.includeZero /\ IsZero(dest[f.Name])))

-----------------------------------------------------------------------------
(* batchUpdateBuilder: builder/batch_update.go *)

ErrMissingBatchTable == "corm: missing table for batch update"
ErrMissingBatchRows == "corm: missing batch rows for update"
ErrBatchRowsMismatch == "corm: batch update rows mismatch"
ErrMissingBatchColumns == "corm: missing columns for batch update"
ErrInvalidBatchKey == "corm: invalid batch update key column"
ErrBatchKeyColumn == "corm: batch update cannot include key column"
ErrBatchModelType == "corm: batch update models must be of the same type"
ErrModelNoTable == "corm: missing table for update: model has no table name"
ErrInvalidModelTable == "corm: invalid table identifier from model"
ErrUnknownBatchColumn == "corm: unknown column in batch update: "
ErrReadonlyBatchColumn == "corm: readonly column in batch update: "
ErrAutoBatchColumn == "corm: auto column in batch update: "
ErrPrimaryKeyBatchColumn == "corm: primary key column in batch update: "
ErrMissingKeyInMap == "corm: missing key column in map: "

\* the value a cell holds when its row leaves the column as it is; no value of
\* a caller equals it
keepCurrentSentinel == -1

newBatchUpdate(d, table) ==
    [d |-> d, table |-> table, modelType |-> NilType, keyColumn |-> ColID,
     keyField |-> NilField, columns |-> <<>>, fields |-> <<>>, rowsKeys |-> <<>>,
     rowsValues |-> <<>>, where |-> newWhereBuilder(d),
     err |-> IF TrimSpace(table) # <<>> /\ d # NilDialect
               THEN validateTable(d, TrimSpace(table)).err ELSE NoErr,
     includePrimaryKey |-> FALSE, includeAuto |-> FALSE, includeReadonly |-> FALSE,
     includeZero |-> FALSE]

\* batchUpdateBuilder.Key
batchKey(b, column) == [b EXCEPT !.keyColumn = TrimSpace(column)]

\* the error batchUpdateFieldsForSchema returns for the declared column col,
\* NoErr when it takes the column
ColumnRefusal(b, s, col) ==
    LET f == ByColumn(s, NormalizeColumn(col))
    IN  IF NormalizeColumn(col) = NormalizeColumn(b.keyColumn) THEN ErrBatchKeyColumn
        ELSE IF f = NilField THEN ErrUnknownBatchColumn
        ELSE IF f.Readonly /\ ~b.includeReadonly THEN ErrReadonlyBatchColumn
        ELSE IF f.Auto /\ ~b.includeAuto THEN ErrAutoBatchColumn
        ELSE IF f.PrimaryKey /\ ~b.includePrimaryKey THEN ErrPrimaryKeyBatchColumn
        ELSE NoErr

\* batchUpdateFieldsForSchema: the builder after the call and the error returned
batchUpdateFieldsForSchema(b, s) ==
    LET refused == {i \in 1..Len(b.columns) : ColumnRefusal(b, s, b.columns[i]) # NoErr}
        declared == [i \in 1..Len(b.columns) |-> ByColumn(s, NormalizeColumn(b.columns[i]))]
        derived == SelectSeq(s.Fields,
                             LAMBDA f : /\ NormalizeColumn(f.Column) # NormalizeColumn(b.keyColumn)
                                        /\ ~FieldSkipped(f, b))
        fields == IF Len(b.columns) > 0 THEN declared ELSE derived
    IN  IF Len(b.columns) > 0 /\ refused # {}
          THEN [b |-> b, err |-> ColumnRefusal(b, s, b.columns[First(refused)])]
        ELSE [b |-> [b EXCEPT !.fields = fields,
                              !.columns = [i \in 1..Len(fields) |-> fields[i].Column]],
              err |-> NoErr]

\* the row loop of Models: one key and one row of cells for each struct
modelRows(b, models) ==
    [b EXCEPT
        !.rowsKeys = @ \o [i \in 1..Len(models) |-> models[i][b.keyField.Name]],
        !.rowsValues = @ \o
            [i \in 1..Len(models) |->
                [j \in 1..Len(b.fields) |->
                    IF /\ b.fields[j].OmitEmpty
                       /\ ~b.includeZero
                       /\ IsZero(models[i][b.fields[j].Name])
                      THEN keepCurrentSentinel
                      ELSE models[i][b.fields[j].Name]]]]

\* Models from the key field on
modelsFromKey(b, s, models) ==
    LET stale == \/ b.keyField = NilField
                 \/ NormalizeColumn(b.keyField.Column) # NormalizeColumn(b.keyColumn)
        keyed == IF stale THEN [b EXCEPT !.keyField = ByColumn(s, NormalizeColumn(b.keyColumn))]
                 ELSE b
        r == batchUpdateFieldsForSchema(keyed, s)
    IN  IF keyed.keyField = NilField THEN [keyed EXCEPT !.err = ErrInvalidBatchKey]
        ELSE IF r.err # NoErr THEN [keyed EXCEPT !.err = r.err]
        ELSE modelRows(r.b, models)

\* batchUpdateBuilder.Models of a slice of structs of the type of Schema s
batchModels(b, s, models) ==
    LET typed == [b EXCEPT !.modelType = s.Type]
        named == IF typed.table = <<>> THEN [typed EXCEPT !.table = s.Table] ELSE typed
        keyed == IF named.keyColumn = <<>> THEN [named EXCEPT !.keyColumn = ColID] ELSE named
    IN  IF b.err # NoErr THEN b
        ELSE IF Len(models) = 0 THEN b
        ELSE IF b.modelType # NilType /\ b.modelType # s.Type
          THEN [b EXCEPT !.err = ErrBatchModelType]
        ELSE IF typed.table = <<>> /\ TrimSpace(s.Table) = <<>>
          THEN [typed EXCEPT !.err = ErrModelNoTable]
        ELSE IF typed.table = <<>> /\ b.d # NilDialect /\ ~quoteIdentStrict(b.d, s.Table).ok
          THEN [typed EXCEPT !.err = ErrInvalidModelTable]
        ELSE modelsFromKey(keyed, s, models)

\* the column list mapsInternal derives from the first row or checks
mapsColumns(b, first) ==
    LET keys == {k \in DOMAIN first : ~EqualFold(k, b.keyColumn)}
        unfit == {i \in 1..Len(b.columns) : \/ EqualFold(b.columns[i], b.keyColumn)
                                            \/ ~quoteColumnStrict(b.d, b.columns[i]).ok}
    IN  IF Len(b.columns) = 0
          THEN IF \E k \in keys : ~quoteColumnStrict(b.d, k).ok
                 THEN [b EXCEPT !.err = ErrInvalidColumn]
               ELSE [b EXCEPT !.columns = SortStrings(keys)]
        ELSE IF unfit = {} THEN b
        ELSE IF EqualFold(b.columns[First(unfit)], b.keyColumn)
          THEN [b EXCEPT !.err = ErrBatchKeyColumn]
        ELSE [b EXCEPT !.err = ErrInvalidColumn]

\* the name mapsInternal looks a column up by
Lookup(col, lowerKeys) == IF lowerKeys THEN ToLower(col) ELSE col

\* a cell that holds the zero value when the map has no value for it
mapCell_ZeroForMissing(m, lookup) == IF lookup \in DOMAIN m THEN m[lookup] ELSE 0

\* the cell mapsInternal makes of map m for the column it looks up by lookup
mapCell(m, lookup) == IF lookup \in DOMAIN m THEN m[lookup] ELSE keepCurrentSentinel

\* the row loop of mapsInternal; rows holds no nil map.  The loop stops at the
\* first row without the key and keeps the rows before it.
mapsRows(b, rows, lowerKeys) ==
    LET keyless == {i \in 1..Len(rows) : Lookup(b.keyColumn, lowerKeys) \notin DOMAIN rows[i]}
        n == IF keyless = {} THEN Len(rows) ELSE First(keyless) - 1
    IN  [b EXCEPT
            !.rowsKeys = @ \o [i \in 1..n |-> rows[i][Lookup(b.keyColumn, lowerKeys)]],
            !.rowsValues = @ \o
                [i \in 1..n |->
                    [j \in 1..Len(b.columns) |->
                        mapCell(rows[i], Lookup(b.columns[j], lowerKeys))]],
            !.err = IF keyless = {} THEN NoErr ELSE ErrMissingKeyInMap]

\* batchUpdateBuilder.mapsInternal
mapsInternal(b, rows, lowerKeys) ==
    LET keyed == IF b.keyColumn = <<>> THEN [b EXCEPT !.keyColumn = ColID] ELSE b
        listed == mapsColumns(keyed, rows[1])
    IN  IF b.err # NoErr THEN b
        ELSE IF Len(rows) = 0 THEN b
        ELSE IF TrimSpace(b.table) = <<>> THEN [b EXCEPT !.err = ErrMissingBatchTable]
        ELSE IF ~quoteColumnStrict(b.d, keyed.keyColumn).ok
          THEN [keyed EXCEPT !.err = ErrInvalidBatchKey]
        ELSE IF listed.err # NoErr THEN listed
        ELSE mapsRows(listed, rows, lowerKeys)

\* batchUpdateBuilder.Maps
batchMaps(b, rows) == mapsInternal(b, rows, FALSE)

\* a branch that binds its cell whatever the cell holds
thenStep_AlwaysBinds(qCol, v) == WriteAdd(v)

\* what follows THEN in the branch of a cell that holds v
thenStep(qCol, v) == IF v = keepCurrentSentinel THEN WriteString(qCol) ELSE WriteAdd(v)

\* the WHEN branches of column ci from row ri on
RECURSIVE caseBranches(_, _, _, _)
caseBranches(b, qCol, ci, ri) ==
    IF ri > Len(b.rowsKeys) THEN <<>>
    ELSE <<WriteString(<<" ", "W", "H", "E", "N", " ">>), WriteAdd(b.rowsKeys[ri]),
           WriteString(<<" ", "T", "H", "E", "N", " ">>),
           thenStep(qCol, b.rowsValues[ri][ci])>>
         \o caseBranches(b, qCol, ci, ri + 1)

\* the SET loop of batchUpdateBuilder.appendSQL from column ci on
RECURSIVE caseColumns(_, _, _, _)
caseColumns(b, cols, keyQuoted, ci) ==
    LET qCol == quoteColumnStrict(b.d, cols[ci]).q
    IN  IF ci > Len(cols) THEN <<>>
        ELSE Comma(ci)
             \o <<WriteString(qCol), WriteString(<<" ", "=", " ", "C", "A", "S", "E", " ">>),
                  WriteString(keyQuoted)>>
             \o caseBranches(b, qCol, ci, 1)
             \o <<WriteString(<<" ", "E", "L", "S", "E", " ">>), WriteString(qCol),
                  WriteString(<<" ", "E", "N", "D">>)>>
             \o caseColumns(b, cols, keyQuoted, ci + 1)

\* the keys of the IN list from row i on
RECURSIVE keyList(_, _)
keyList(b, i) ==
    IF i > Len(b.rowsKeys) THEN <<>>
    ELSE Comma(i) \o <<WriteAdd(b.rowsKeys[i])>> \o keyList(b, i + 1)

\* batchUpdateBuilder.appendSQL
batchAppendSQL(B, b) ==
    LET keyQuoted == quoteColumnStrict(b.d, b.keyColumn)
        cols == IF Len(b.fields) > 0 THEN [i \in 1..Len(b.fields) |-> b.fields[i].Column]
                ELSE b.columns
    IN  IF TrimSpace(b.table) = <<>> THEN <<ReturnErr(ErrMissingBatchTable)>>
        ELSE IF Len(b.rowsKeys) = 0 \/ Len(b.rowsValues) = 0 THEN <<ReturnErr(ErrMissingBatchRows)>>
        ELSE IF Len(b.rowsKeys) # Len(b.rowsValues) THEN <<ReturnErr(ErrBatchRowsMismatch)>>
        ELSE IF Len(b.columns) = 0 /\ Len(b.fields) = 0 THEN <<ReturnErr(ErrMissingBatchColumns)>>
        ELSE IF ~keyQuoted.ok THEN <<ReturnErr(ErrInvalidColumn)>>
        ELSE IF \E i \in 1..Len(cols) : ~quoteColumnStrict(b.d, cols[i]).ok
          THEN <<ReturnErr(ErrInvalidColumn)>>
        ELSE <<WriteString(<<"U", "P", "D", "A", "T", "E", " ">>), TableStep(b),
               WriteString(<<" ", "S", "E", "T", " ">>)>>
             \o caseColumns(b, cols, keyQuoted.q, 1)
             \o <<WriteString(<<" ", "W", "H", "E", "R", "E", " ">>), WriteString(keyQuoted.q),
                  WriteString(<<" ", "I", "N", " ", "(">>)>>
             \o keyList(b, 1)
             \o <<WriteString(<<")">>)>>
             \o appendAndWhere(B, b.where)

\* batchUpdateBuilder.SQL
batchSQL(B, b) ==
    IF b.err # NoErr THEN Failure(b.err)
    ELSE IF b.d = NilDialect THEN Failure(ErrNilDialect)
    ELSE SQLReturn(Run(newArgBuilder(b.d), batchAppendSQL(B, b), 1))

\* the start of UpdateBuilder.Key, Models and Maps: the builder with its batch
\* made when it had none
ErrSwitchToBatch == "corm: cannot switch to batch update after using Set/Where"

withBatch(b) ==
    IF b.batch # NilBatch THEN b
    ELSE IF Len(b.sets) > 0 \/ Len(b.where.items) > 0 THEN [b EXCEPT !.err = ErrSwitchToBatch]
    ELSE [b EXCEPT !.batch = newBatchUpdate(b.d, b.table)]

\* the Include flags of the UpdateBuilder copied to its batch
withFlags(b) ==
    [b EXCEPT !.batch.includePrimaryKey = b.includePrimaryKey,
              !.batch.includeAuto = b.includeAuto,
              !.batch.includeReadonly = b.includeReadonly,
              !.batch.includeZero = b.includeZero]

\* UpdateBuilder.Key
Key(b, column) ==
    IF b.err # NoErr THEN b
    ELSE IF withBatch(b).err # NoErr THEN withBatch(b)
    ELSE [withBatch(b) EXCEPT !.batch = batchKey(@, column)]

\* UpdateBuilder.Models
Models(b, s, models) ==
    IF b.err # NoErr THEN b
    ELSE IF withBatch(b).err # NoErr THEN withBatch(b)
    ELSE [withFlags(withBatch(b)) EXCEPT !.batch = batchModels(@, s, models)]

\* UpdateBuilder.Maps
Maps(b, rows) ==
    IF b.err # NoErr THEN b
    ELSE IF withBatch(b).err # NoErr THEN withBatch(b)
    ELSE [withFlags(withBatch(b)) EXCEPT !.batch = batchMaps(@, rows)]

\* UpdateBuilder.IncludeZero and InsertBuilder.IncludeZero
IncludeZero(b) == [b EXCEPT !.includeZero = TRUE]

\* UpdateBuilder.IncludePrimaryKey and InsertBuilder.IncludePrimaryKey
IncludePrimaryKey(b) == [b EXCEPT !.includePrimaryKey = TRUE]

\* the Set calls of UpdateBuilder.Model from written field i on
RECURSIVE setFields(_, _, _, _)
setFields(b, dest, fields, i) ==
    IF i > Len(fields) THEN b
    ELSE setFields(Set(b, fields[i].Column, dest[fields[i].Name]), dest, fields, i + 1)

\* UpdateBuilder.Model of a struct of the type of Schema s
Model(b, s, dest) ==
    LET named == IF b.table = <<>> THEN [b EXCEPT !.table = s.Table] ELSE b
    IN  IF b.err # NoErr THEN b
        ELSE IF b.table = <<>> /\ TrimSpace(s.Table) = <<>> THEN [b EXCEPT !.err = ErrModelNoTable]
        ELSE IF b.table = <<>> /\ b.d # NilDialect /\ ~quoteIdentStrict(b.d, s.Table).ok
          THEN [b EXCEPT !.err = ErrInvalidModelTable]
        ELSE setFields(named, dest, ColumnsAndValues(s, dest, named), 1)

\* UpdateBuilder.SQL of builder id
UpdateSQL(B, id) ==
    LET b == B[id]
    IN  IF b.err # NoErr THEN Failure(b.err)
        ELSE IF b.batch # NilBatch THEN batchSQL(B, b.batch)
        ELSE IF b.d = NilDialect THEN Failure(ErrNilDialect)
        ELSE IF TrimSpace(b.table) = <<>> THEN Failure(ErrMissingUpdateTable)
        ELSE IF Len(b.sets) = 0 THEN Failure(ErrMissingSet)
        ELSE SQLReturn(Run(newArgBuilder(b.d),
                        <<WriteString(<<"U", "P", "D", "A", "T", "E", " ">>), TableStep(b), WriteString(<<" ", "S", "E", "T", " ">>)>>
                        \o appendSets(b, 1)
                        \o appendWhere(B, b.where)
                        \o GuardAndLimit(b, ErrUpdateWithoutWhere, ErrUpdateLimit), 1))

\* DeleteBuilder.SQL of builder id
DeleteSQL(B, id) ==
    LET b == B[id]
    IN  IF b.err # NoErr THEN Failure(b.err)
        ELSE IF b.d = NilDialect THEN Failure(ErrNilDialect)
        ELSE IF TrimSpace(b.table) = <<>> THEN Failure(ErrMissingDeleteTable)
        ELSE SQLReturn(Run(newArgBuilder(b.d),
                        <<WriteString(<<"D", "E", "L", "E", "T", "E", " ", "F", "R", "O", "M", " ">>), TableStep(b)>>
                        \o appendWhere(B, b.where)
                        \o GuardAndLimit(b, ErrDeleteWithoutWhere, ErrDeleteLimit), 1))

-----------------------------------------------------------------------------
(* InsertBuilder: builder/insert.go *)

ErrMissingInsertTable == "corm: missing table for insert"
ErrMissingInsertColumns == "corm: missing columns for insert"
ErrMissingInsertValues == "corm: missing values for insert"
ErrInsertLengthMismatch == "corm: insert values length mismatch columns"
ErrUnknownModelColumn == "corm: unknown column in Model: "
ErrMissingValue == "corm: missing value for column: "

newInsert(d, table) ==
    [kind |-> "insert", d |-> d, table |-> table, columns |-> <<>>, rows |-> <<>>,
     returning |-> <<>>, err |-> NoErr, includePrimaryKey |-> FALSE, includeAuto |-> FALSE,
     includeReadonly |-> FALSE, includeZero |-> FALSE, fromSelect |-> NilBuilder,
     suffix |-> <<>>]

\* InsertBuilder.Columns
RECURSIVE Columns(_, _, _)
Columns(b, cols, i) ==
    IF b.err # NoErr \/ i > Len(cols) THEN b
    ELSE IF ~quoteColumnStrict(b.d, cols[i]).ok THEN [b EXCEPT !.err = ErrInvalidColumn]
    ELSE Columns([b EXCEPT !.columns = Append(@, cols[i])], cols, i + 1)

\* InsertBuilder.Values
Values(b, values) == IF b.err # NoErr THEN b ELSE [b EXCEPT !.rows = Append(@, values)]

\* byCol[strings.ToLower(col)] of InsertBuilder.Model: the written field whose
\* column is col but for case, the last of them; NilField if none
byCol(fields, col) ==
    LET at == {i \in 1..Len(fields) : ToLower(fields[i].Column) = ToLower(col)}
    IN  IF at = {} THEN NilField ELSE fields[CHOOSE i \in at : \A j \in at : j <= i]

\* InsertBuilder.Model of a struct of the type of Schema s
InsertModel(b, s, dest) ==
    LET named == IF b.table = <<>> THEN [b EXCEPT !.table = s.Table] ELSE b
        fields == ColumnsAndValues(s, dest, named)
        unknown == {i \in 1..Len(b.columns) : byCol(fields, b.columns[i]) = NilField}
    IN  IF b.err # NoErr THEN b
        ELSE IF Len(b.columns) > 0
          THEN IF unknown # {} THEN [named EXCEPT !.err = ErrUnknownModelColumn]
               ELSE [named EXCEPT !.rows = Append(@,
                        [i \in 1..Len(b.columns) |-> dest[byCol(fields, b.columns[i]).Name]])]
        ELSE [named EXCEPT !.columns = [i \in 1..Len(fields) |-> fields[i].Column],
                           !.rows = Append(@, [i \in 1..Len(fields) |-> dest[fields[i].Name]])]

\* the keys of a key slice
KeysOf(order) == {order[i] : i \in 1..Len(order)}

\* the orders in which a range statement can visit map values: the runtime
\* picks one at each range, the same map can be visited differently twice
RangeOrders(values) ==
    {order \in [1..Cardinality(DOMAIN values) -> DOMAIN values] : KeysOf(order) = DOMAIN values}

\* one of them, for maps whose visiting order makes no difference
OneRange(values) == CHOOSE order \in RangeOrders(values) : TRUE

\* keys as the range over a map collected them, after sort.Strings(keys)
sortedKeys_AsCollected(order) == order
sortedKeys(order) == SortStrings(KeysOf(order))

\* the greatest index in I
Last(I) == CHOOSE i \in I : \A j \in I : j <= i

\* normValues of InsertBuilder.Map: the lower-cased keys, each with the value
\* of the key the range visited last among those that lower-case to it
normValues(values, order) ==
    [n \in {ToLower(order[i]) : i \in 1..Len(order)} |->
        values[order[Last({i \in 1..Len(order) : ToLower(order[i]) = n})]]]

\* InsertBuilder.Map, the range statements over values visiting it in order
Map(b, values, order) ==
    LET norm == normValues(values, order)
        missing == {i \in 1..Len(b.columns) :
                       /\ b.columns[i] \notin DOMAIN values
                       /\ ToLower(b.columns[i]) \notin DOMAIN norm}
        keys == sortedKeys(order)
        invalid == {i \in 1..Len(keys) : ~quoteColumnStrict(b.d, keys[i]).ok}
    IN  IF b.err # NoErr THEN b
        ELSE IF DOMAIN values = {} THEN b
        ELSE IF Len(b.columns) > 0
          THEN IF missing # {} THEN [b EXCEPT !.err = ErrMissingValue]
               ELSE [b EXCEPT !.rows = Append(@,
                        [i \in 1..Len(b.columns) |->
                            IF b.columns[i] \in DOMAIN values THEN values[b.columns[i]]
                            ELSE norm[ToLower(b.columns[i])]])]
        ELSE IF invalid # {}
          THEN [b EXCEPT !.columns = SubSeq(keys, 1, First(invalid) - 1),
                         !.err = ErrInvalidColumn]
        ELSE [b EXCEPT !.columns = keys,
                       !.rows = Append(@, [i \in 1..Len(keys) |-> values[keys[i]]])]

\* InsertBuilder.Maps.  No two keys of a map in rows are alike but for their
\* case, so each is visited in one order.
RECURSIVE InsertMaps(_, _, _)
InsertMaps(b, rows, i) ==
    IF b.err # NoErr \/ i > Len(rows) THEN b
    ELSE InsertMaps(Map(b, rows[i], OneRange(rows[i])), rows, i + 1)

ErrMapOnBatch == "corm: cannot use Map(map) on batch update, use Maps([]map)"

\* UpdateBuilder.Map, the range over values visiting it in order
UpdateMap(b, values, order) ==
    LET keys == sortedKeys(order)
        invalid == {i \in 1..Len(keys) : ~quoteColumnStrict(b.d, keys[i]).ok}
        n == IF invalid = {} THEN Len(keys) ELSE First(invalid) - 1
    IN  IF b.err # NoErr THEN b
        ELSE IF b.batch # NilBatch THEN [b EXCEPT !.err = ErrMapOnBatch]
        ELSE [b EXCEPT !.sets = @ \o [i \in 1..n |-> [column |-> keys[i], value |-> values[keys[i]]]],
                       !.err = IF invalid # {} THEN ErrInvalidColumn ELSE @]

\* the loop of whereBuilder.WhereMap from the i-th sorted key on
RECURSIVE wbWhereMapKeys(_, _, _, _)
wbWhereMapKeys(wb, conditions, keys, i) ==
    IF i > Len(keys) THEN wb
    ELSE IF ~quoteColumnStrict(wb.d, keys[i]).ok THEN [wb EXCEPT !.err = ErrInvalidColumn]
    ELSE wbWhereMapKeys(wbWhereEq(wb, keys[i], conditions[keys[i]]), conditions, keys, i + 1)

\* whereBuilder.WhereMap
wbWhereMap(wb, conditions, order) ==
    IF wb.err # NoErr THEN wb ELSE wbWhereMapKeys(wb, conditions, sortedKeys(order), 1)

\* WhereMap of SelectBuilder, UpdateBuilder and DeleteBuilder; an
\* UpdateBuilder in batch mode hands the map to the where of its batch
WhereMap(b, conditions, order) ==
    IF b.err # NoErr THEN b
    ELSE IF b.kind = "update" /\ b.batch # NilBatch
      THEN LET wb == wbWhereMap(b.batch.where, conditions, order)
           IN  [b EXCEPT !.batch.where = wb, !.err = IF wb.err # NoErr THEN wb.err ELSE @]
    ELSE WhereCall(b, wbWhereMap(b.where, conditions, order))

\* the column list of InsertBuilder.appendSQL from column i on
RECURSIVE insertColumns(_, _)
insertColumns(b, i) ==
    LET qCol == quoteColumnStrict(b.d, b.columns[i])
    IN  IF i > Len(b.columns) THEN <<>>
        ELSE IF ~qCol.ok THEN Comma(i) \o <<ReturnErr(ErrInvalidColumn)>>
        ELSE Comma(i) \o <<WriteString(qCol.q)>> \o insertColumns(b, i + 1)

\* the placeholders of one row from value i on
RECURSIVE insertValues(_, _)
insertValues(row, i) ==
    IF i > Len(row) THEN <<>>
    ELSE Comma(i) \o <<WriteAdd(row[i])>> \o insertValues(row, i + 1)

\* the VALUES list from row r on, only the first row's length looked at
RECURSIVE insertRows_FirstRowOnly(_, _)
insertRows_FirstRowOnly(b, r) ==
    IF r > Len(b.rows) THEN <<>>
    ELSE IF r = 1 /\ Len(b.rows[r]) # Len(b.columns) THEN <<ReturnErr(ErrInsertLengthMismatch)>>
    ELSE Comma(r) \o <<WriteString(<<"(">>)>> \o insertValues(b.rows[r], 1)
         \o <<WriteString(<<")">>)>> \o insertRows_FirstRowOnly(b, r + 1)

\* the VALUES list from row r on
RECURSIVE insertRows(_, _)
insertRows(b, r) ==
    IF r > Len(b.rows) THEN <<>>
    ELSE IF Len(b.rows[r]) # Len(b.columns) THEN <<ReturnErr(ErrInsertLengthMismatch)>>
    ELSE Comma(r) \o <<WriteString(<<"(">>)>> \o insertValues(b.rows[r], 1)
         \o <<WriteString(<<")">>)>> \o insertRows(b, r + 1)

\* dialect.SupportsReturning
SupportsReturning(d) == d = "postgres"

\* the RETURNING list from column i on
RECURSIVE insertReturning(_, _)
insertReturning(b, i) ==
    LET qCol == quoteColumnStrict(b.d, b.returning[i])
    IN  IF i > Len(b.returning) THEN <<>>
        ELSE IF ~qCol.ok THEN Comma(i) \o <<ReturnErr(ErrInvalidColumn)>>
        ELSE Comma(i) \o <<WriteString(qCol.q)>> \o insertReturning(b, i + 1)

\* the suffix loop from suffix i on
RECURSIVE insertSuffix(_, _)
insertSuffix(b, i) ==
    IF i > Len(b.suffix) THEN <<>>
    ELSE IF TrimSpace(b.suffix[i].SQL) = <<>> THEN insertSuffix(b, i + 1)
    ELSE <<WriteString(<<" ">>), AppendExprStep(b.suffix[i])>> \o insertSuffix(b, i + 1)

\* InsertBuilder.appendSQL
insertAppendSQL(B, b) ==
    IF TrimSpace(b.table) = <<>> THEN <<ReturnErr(ErrMissingInsertTable)>>
    ELSE IF Len(b.columns) = 0 THEN <<ReturnErr(ErrMissingInsertColumns)>>
    ELSE <<WriteString(<<"I", "N", "S", "E", "R", "T", " ", "I", "N", "T", "O", " ">>),
           TableStep(b), WriteString(<<" ", "(">>)>>
         \o insertColumns(b, 1)
         \o <<WriteString(<<")">>)>>
         \o (IF b.fromSelect # NilBuilder
               THEN <<WriteString(<<" ">>)>> \o appendSQL(B, b.fromSelect)
             ELSE IF Len(b.rows) = 0 THEN <<ReturnErr(ErrMissingInsertValues)>>
             ELSE <<WriteString(<<" ", "V", "A", "L", "U", "E", "S", " ">>)>> \o insertRows(b, 1))
         \o (IF Len(b.returning) > 0 /\ SupportsReturning(b.d)
               THEN <<WriteString(<<" ", "R", "E", "T", "U", "R", "N", "I", "N", "G", " ">>)>>
                    \o insertReturning(b, 1)
             ELSE <<>>)
         \o insertSuffix(b, 1)

\* InsertBuilder.SQL of builder id
InsertSQL(B, id) ==
    LET b == B[id]
    IN  IF b.err # NoErr THEN Failure(b.err)
        ELSE IF b.d = NilDialect THEN Failure(ErrNilDialect)
        ELSE SQLReturn(Run(newArgBuilder(b.d), insertAppendSQL(B, b), 1))

SQL(B, id) ==
    IF B[id].kind = "select" THEN SelectSQL(B, id)
    ELSE IF B[id].kind = "update" THEN UpdateSQL(B, id)
    ELSE IF B[id].kind = "insert" THEN InsertSQL(B, id)
    ELSE DeleteSQL(B, id)

-----------------------------------------------------------------------------
(* SpecBuild: a caller makes two builders of one dialect, the first a      *)
(* select, update or delete and the second a select the first may take as  *)
(* a sub-select, calls their methods in any order, and compiles the first. *)

\* most method calls before SQL()
MaxOps == 4
\* most conditions the caller adds to one builder
MaxWhere == 2
\* most joins, unions and SET entries the caller adds to one builder
MaxParts == 1

Main == "first"
Sub == "second"

\* values are told apart by the builder and the place they are given to
Val(id, k) == (IF id = Main THEN 10 ELSE 20) + k

\* the identifier of each builder that passes validation, and one that does not
ValidIdent(id) == IF id = Main THEN <<"t">> ELSE <<"s">>
BadIdent == <<"u", ";">>
Idents(id) == {ValidIdent(id), BadIdent}
SetColumn == <<"c">>

\* the letters of each builder's raw conditions
CondLetters(id) == IF id = Main THEN <<"a", "b", "c">> ELSE <<"x", "y", "z">>

\* "a=?" with its argument
Cond(id, k) == RawArgs(<<CondLetters(id)[k], "=", "?">>, <<Val(id, k)>>)
\* "b=? AND c=?" with its two arguments
CondTwo(id) ==
    RawArgs(Cond(id, 2).SQL \o <<" ", "A", "N", "D", " ">> \o Cond(id, 3).SQL, <<Val(id, 2), Val(id, 3)>>)
\* a '?' inside a string literal, no argument
CondLiteral == RawArgs(<<"'", "?", "'">>, <<>>)
CondBlank == RawArgs(<<" ">>, <<>>)
\* one marker, two arguments
CondMismatch(id) == RawArgs(Cond(id, 1).SQL, <<Val(id, 1), Val(id, 1)>>)
\* a condition that begins with a blank
CondLead(id) == RawArgs(<<" ">> \o Cond(id, 1).SQL, Cond(id, 1).Args)

WherePool(id) ==
    IF id = Main THEN {Cond(id, 1), CondTwo(id), CondLiteral, CondBlank, CondMismatch(id)}
    ELSE {Cond(id, 1), CondBlank}
WhereExprPool(id) == IF id = Main THEN {CondLead(id), CondBlank} ELSE {}
OnPool == {Cond(Main, 1), CondBlank}

LimitPool(id) == IF id = Main THEN {5, -1} ELSE {6}
OffsetPool(id) == IF id = Main THEN {7} ELSE {}

\* what the caller asked of a builder: cond, a condition that is not blank;
\* blank, a blank condition; bad, the identifiers handed over that fail validation
NoReq == [cond |-> FALSE, blank |-> FALSE, bad |-> {}]

InitBuild ==
    /\ \E d \in Dialects :
         \E first \in {newSelect(d, <<>>), newSelect(d, <<BadIdent>>)}
                      \cup {newUpdate(d, t) : t \in Idents(Main)}
                      \cup {newDelete(d, t) : t \in Idents(Main)} :
            /\ bld = [id \in {Main, Sub} |-> IF id = Main THEN first ELSE newSelect(d, <<>>)]
            /\ req = [id \in {Main, Sub} |->
                        IF id = Main /\ (first.err # NoErr \/ first.columns # <<>>)
                          THEN [NoReq EXCEPT !.bad = {BadIdent}] ELSE NoReq]
    /\ res = NoRes
    /\ ops = 0
    /\ ExprIdle
    /\ SchemaIdle
    /\ PoolIdle
    /\ BatchIdle
    /\ FuncIdle

\* a call of a method on builder id that leaves it as b
Called(id, b, cond, blank, bad) ==
    /\ res = NoRes
    /\ ops < MaxOps
    /\ bld' = [bld EXCEPT ![id] = b]
    /\ req' = [req EXCEPT ![id] = [cond |-> @.cond \/ cond, blank |-> @.blank \/ blank,
                                        bad |-> @.bad \cup bad]]
    /\ ops' = ops + 1
    /\ UNCHANGED <<res, outsideBuild>>

IsSelect(id) == bld[id].kind = "select"
RoomInWhere(id) == Len(bld[id].where.items) < MaxWhere

TableOk(id, t) == validateTable(bld[id].d, t).err = NoErr
IdentOk(id, c) == quoteIdentStrict(bld[id].d, c).ok
ColumnOk(id, c) == quoteColumnStrict(bld[id].d, c).ok
AliasOk(a) == isSimpleIdent(TrimSpace(a))

CallFrom(id, table) ==
    /\ IsSelect(id)
    /\ Called(id, From(bld[id], table), FALSE, FALSE,
              IF TableOk(id, table) THEN {} ELSE {table})

CallFromSelect(alias) ==
    /\ IsSelect(Main)
    /\ Called(Main, FromSelect(bld[Main], Sub, alias), FALSE, FALSE,
              IF AliasOk(alias) THEN {} ELSE {alias})

CallWhere(id, x) ==
    /\ RoomInWhere(id)
    /\ Called(id, Where(bld[id], x.SQL, x.Args), ~IsBlank(x.SQL), IsBlank(x.SQL), {})

CallWhereExpr(id, x) ==
    /\ RoomInWhere(id)
    /\ Called(id, WhereExpr(bld[id], x), ~IsBlank(x.SQL), IsBlank(x.SQL), {})

CallWhereEq(id, column) ==
    /\ RoomInWhere(id)
    /\ Called(id, WhereEq(bld[id], column, Val(id, 4)), TRUE, FALSE,
              IF IdentOk(id, column) THEN {} ELSE {column})

CallWhereInSubquery(column) ==
    /\ RoomInWhere(Main)
    /\ Called(Main, WhereInSubquery(bld[Main], column, Sub), TRUE, FALSE,
              IF IdentOk(Main, column) THEN {} ELSE {column})

CallJoinSelectAs(alias, on) ==
    /\ IsSelect(Main)
    /\ Len(bld[Main].joins) < MaxParts
    /\ Called(Main, JoinSelectAs(bld[Main], Sub, alias, on), FALSE, FALSE,
              IF AliasOk(alias) THEN {} ELSE {alias})

CallUnion ==
    /\ IsSelect(Main)
    /\ Len(bld[Main].unions) < MaxParts
    /\ Called(Main, Union(bld[Main], Sub), FALSE, FALSE, {})

CallLimit(id, n) ==
    /\ bld[id].kind \in {"select", "update", "delete"}
    /\ Called(id, IF bld[id].kind = "select" THEN SelectLimit(bld[id], n)
                  ELSE IF bld[id].kind = "update" THEN UpdateLimit(bld[id], n)
                  ELSE DeleteLimit(bld[id], n),
              FALSE, FALSE, {})

CallOffset(id, n) ==
    /\ IsSelect(id)
    /\ Called(id, Offset(bld[id], n), FALSE, FALSE, {})

CallSet(column) ==
    /\ bld[Main].kind = "update"
    /\ Len(bld[Main].sets) < MaxParts
    /\ Called(Main, Set(bld[Main], column, Val(Main, 5)), FALSE, FALSE,
              IF ColumnOk(Main, column) THEN {} ELSE {column})

CallAllowEmptyWhere ==
    /\ bld[Main].kind \in {"update", "delete"}
    /\ Called(Main, AllowEmptyWhere(bld[Main]), FALSE, FALSE, {})

\* SQL() of the first builder
CallSQL ==
    /\ res = NoRes
    /\ res' = SQL(bld, Main)
    /\ UNCHANGED <<bld, req, ops, outsideBuild>>

NextBuild ==
    \/ \E id \in {Main, Sub} : \E table \in Idents(id) : CallFrom(id, table)
    \/ \E alias \in Idents(Main) : CallFromSelect(alias)
    \/ \E id \in {Main, Sub} : \E x \in WherePool(id) : CallWhere(id, x)
    \/ \E id \in {Main, Sub} : \E x \in WhereExprPool(id) : CallWhereExpr(id, x)
    \/ \E id \in {Main, Sub} : \E column \in Idents(id) : CallWhereEq(id, column)
    \/ \E column \in Idents(Main) : CallWhereInSubquery(column)
    \/ \E alias \in Idents(Main) : \E on \in OnPool : CallJoinSelectAs(alias, on)
    \/ CallUnion
    \/ \E id \in {Main, Sub} : \E n \in LimitPool(id) : CallLimit(id, n)
    \/ \E id \in {Main, Sub} : \E n \in OffsetPool(id) : CallOffset(id, n)
    \/ \E column \in {SetColumn, BadIdent} : CallSet(column)
    \/ CallAllowEmptyWhere
    \/ CallSQL

SpecBuild == InitBuild /\ [][NextBuild]_vars

-----------------------------------------------------------------------------
(* The claims about the statement builders *)

\* SQL() of the first builder has returned
Compiled1 == res.err # "none"

\* s holds t as a substring
Contains(s, t) == \E p \in 1..Len(s) : HasPrefixAt(s, p, t)

EndsWith(s, t) == Len(t) <= Len(s) /\ SubSeq(s, Len(s) - Len(t) + 1, Len(s)) = t

\* the first position at or after p that holds no digit
RECURSIVE DigitsEnd(_, _)
DigitsEnd(sql, p) == IF p <= Len(sql) /\ sql[p] \in Digits THEN DigitsEnd(sql, p + 1) ELSE p

\* strconv.Atoi of a sequence of digits
RECURSIVE Atoi(_)
Atoi(ds) ==
    IF ds = <<>> THEN 0
    ELSE 10 * Atoi(SubSeq(ds, 1, Len(ds) - 1))
         + (CHOOSE k \in 0..9 : DigitOf[k + 1] = ds[Len(ds)])

\* the numbered placeholders of sql at or after p, left to right: where each
\* stands and its number
RECURSIVE PlaceholdersFrom(_, _)
PlaceholdersFrom(sql, p) ==
    IF p > Len(sql) THEN <<>>
    ELSE IF sql[p] = "$" /\ DigitsEnd(sql, p + 1) > p + 1
      THEN <<[at |-> p, n |-> Atoi(SubSeq(sql, p + 1, DigitsEnd(sql, p + 1) - 1))]>>
           \o PlaceholdersFrom(sql, DigitsEnd(sql, p + 1))
    ELSE PlaceholdersFrom(sql, p + 1)

\* the values the caller gave for a placeholder that follows the text pre:
\* a raw condition names its value by its letter, WhereEq and Set by their
\* column, LIMIT and OFFSET by their keyword
Expected(pre) ==
    UNION {{Val(id, k) : k \in {j \in 1..3 : EndsWith(pre, <<CondLetters(id)[j], "=">>)}}
           \cup (IF EndsWith(pre, QuoteIdent("postgres", ValidIdent(id)) \o <<" ", "=", " ">>)
                   THEN {Val(id, 4)} ELSE {})
           \cup (IF EndsWith(pre, <<" ", "L", "I", "M", "I", "T", " ">>)
                   THEN {(IF n < 0 THEN 0 ELSE n) : n \in LimitPool(id)} ELSE {})
           \cup (IF EndsWith(pre, <<" ", "O", "F", "F", "S", "E", "T", " ">>) THEN OffsetPool(id) ELSE {})
           : id \in {Main, Sub}}
    \cup (IF EndsWith(pre, QuoteIdent("postgres", SetColumn) \o <<" ", "=", " ">>)
            THEN {Val(Main, 5)} ELSE {})

\* C3: for the numbered-marker dialect, the placeholders of a successfully
\* compiled statement, read left to right, are $1, $2, ..., $N, N is the
\* length of the returned args, and the i-th placeholder stands where the
\* caller gave args[i]
C3_PlaceholdersNumberTheArgs ==
    (res.err = NoErr /\ bld[Main].d = "postgres") =>
        LET ph == PlaceholdersFrom(res.sql, 1)
        IN  /\ Len(ph) = Len(res.args)
            /\ \A i \in 1..Len(ph) :
                 /\ ph[i].n = i
                 /\ res.args[i] \in Expected(SubSeq(res.sql, 1, ph[i].at - 1))

\* a select joined to a sub-select that has a condition, on a condition of
\* its own, compiled for postgres
C3_Witness ==
    /\ res.err = NoErr
    /\ bld[Main].d = "postgres"
    /\ Len(bld[Main].joins) = 1
    /\ res.args = <<Val(Sub, 1), Val(Main, 1)>>

\* the builders the statement of the first builder is made of
Embedded(b) ==
    ({b.fromSub} \cup {b.joins[i].sub : i \in 1..Len(b.joins)}
                 \cup {b.where.items[i].sub : i \in 1..Len(b.where.items)}
                 \cup {b.unions[i].sub : i \in 1..Len(b.unions)}) \ {NilBuilder}
Statement == {Main} \cup Embedded(bld[Main])

\* the bare statement of an update or delete builder, and the same with a LIMIT
RECURSIVE Assignments(_, _)
Assignments(b, n) ==
    IF n = 0 THEN <<>>
    ELSE Assignments(b, n - 1) \o (IF n > 1 THEN <<",", " ">> ELSE <<>>)
         \o QuoteIdent(b.d, b.sets[n].column) \o <<" ", "=", " ">> \o Placeholder(b.d, n)
Bare(b) ==
    IF b.kind = "delete" THEN <<"D", "E", "L", "E", "T", "E", " ", "F", "R", "O", "M", " ">> \o QuoteIdent(b.d, b.table)
    ELSE <<"U", "P", "D", "A", "T", "E", " ">> \o QuoteIdent(b.d, b.table) \o <<" ", "S", "E", "T", " ">>
         \o Assignments(b, Len(b.sets))
BareWithLimit(b) == Bare(b) \o <<" ", "L", "I", "M", "I", "T", " ">> \o Placeholder(b.d, Len(b.sets) + 1)

\* C5: an UPDATE or DELETE the caller gave no condition, or blank ones only,
\* does not compile unless AllowEmptyWhere was called; after AllowEmptyWhere
\* it is never refused for its missing WHERE, and what it compiles to is the
\* bare statement, without a WHERE clause
C5_EmptyWhereIsRefused ==
    (Compiled1 /\ bld[Main].kind \in {"update", "delete"} /\ ~req[Main].cond) =>
        IF ~bld[Main].allowEmptyWhere THEN res.err # NoErr
        ELSE /\ res.err \notin {ErrUpdateWithoutWhere, ErrDeleteWithoutWhere, ErrAllWhereEmpty}
             /\ res.err = NoErr => res.sql \in {Bare(bld[Main]), BareWithLimit(bld[Main])}

\* a delete that was given a blank condition only and AllowEmptyWhere compiles
C5_Witness ==
    /\ bld[Main].kind = "delete"
    /\ req[Main].blank
    /\ ~req[Main].cond
    /\ bld[Main].allowEmptyWhere
    /\ res.err = NoErr

\* C6: when an identifier handed to a builder of the statement fails
\* validation, SQL() returns an error, and no compiled text holds an
\* identifier that failed validation
C6_InvalidIdentifierIsAnError ==
    Compiled1 =>
        /\ (\E id \in Statement : req[id].bad # {}) => res.err # NoErr
        /\ res.err = NoErr =>
             \A id \in Statement : \A t \in req[id].bad : ~Contains(res.sql, t)

-----------------------------------------------------------------------------
(* The pools SelectBuilder.SQL draws from: argBuilderPool of                *)
(* builder/arg_builder.go and bufferPool of builder/internal.go.  A []any   *)
(* slice is [arr, len, cap]: a window on the backing array arrays[arr],     *)
(* whose slots hold 0 (a nil interface) until an argument is written.       *)
(* Objects are named by the order New made them; 0 is a nil pointer.        *)

\* goroutines calling SQL() in SpecPool
NumCallers == 2
\* calls of SQL() in one behaviour of SpecPool
MaxSQLCalls == 3
\* most arguments of one statement of SpecPool
MaxStmtArgs == 3
\* objects the New of one pool makes in one behaviour of SpecPool
MaxObjs == 2

\* "args: make([]any, 0, 32)": the capacity New gives an argBuilder.  The
\* source has 32 and a ceiling of 256 for pooled slices; the model scales both
\* so that a statement of MaxStmtArgs arguments outgrows the ceiling
newArgsCap == 1
maxPooledArgs == 2
\* the source has 64 * 1024; scaled to the texts of the model
maxPooledBufferCap == 3

Callers == 1..NumCallers

\* the arguments the c-th call of SQL() binds when its statement has k of them
StmtArgs(c, k) == [i \in 1..k |-> 10 * c + i]

\* the arguments a slice shows
SliceValues(arrs, s) == SubSeq(arrs[s.arr], 1, s.len)

\* what a backing array holds beyond nil interfaces
Held(arrs, s) == {arrs[s.arr][i] : i \in 1..s.cap} \ {0}

\* the array append allocates when the slice is full: twice the capacity
Grown(arrs, s, v) ==
    SubSeq(arrs[s.arr], 1, s.len) \o <<v>> \o [i \in 1..(2 * s.cap - s.len - 1) |-> 0]

\* "a.args = append(a.args, v)": in place while the capacity lasts
sliceAppend(arrs, s, v) ==
    IF s.len < s.cap
      THEN [arrays |-> [arrs EXCEPT ![s.arr][s.len + 1] = v],
            s |-> [s EXCEPT !.len = @ + 1]]
      ELSE [arrays |-> Append(arrs, Grown(arrs, s, v)),
            s |-> [arr |-> Len(arrs) + 1, len |-> s.len + 1, cap |-> 2 * s.cap]]

\* argBuilderPool.New: "&argBuilder{args: make([]any, 0, 32)}" over a new array
NewArgBuilder(arrs) ==
    [d |-> NilDialect, idx |-> 0, usesQmark |-> FALSE, buf |-> 0,
     args |-> [arr |-> Len(arrs) + 1, len |-> 0, cap |-> newArgsCap]]

\* newArgBuilder(d, buf) on the object Get returned
resetArgBuilder(a, d, buf) ==
    [a EXCEPT !.d = d, !.idx = 1, !.args.len = 0,
              !.usesQmark = (Placeholder(d, 1) = <<"?">>), !.buf = buf]

\* bufferPool.New: "new(bytes.Buffer)"
NewBuffer == [text |-> <<>>, cap |-> 0]

\* buf.Reset()
ResetBuffer(b) == [b EXCEPT !.text = <<>>]

\* buf.WriteString(s): the capacity is at least the length of the text
WriteBuffer(b, s) ==
    [text |-> b.text \o s,
     cap |-> IF Len(b.text \o s) > b.cap THEN Len(b.text \o s) ELSE b.cap]

\* argBuilder.add on a pooled argBuilder: the arrays and the argBuilder after
\* the call, and the placeholder it returns
poolAdd(arrs, a, v) ==
    LET r == sliceAppend(arrs, a.args, v)
    IN  [arrays |-> r.arrays,
         ab |-> [a EXCEPT !.args = r.s, !.idx = @ + 1],
         text |-> IF a.usesQmark THEN <<"?">> ELSE Placeholder(a.d, a.idx)]

\* appendSQL of a statement that binds args from the i-th on: "buf.WriteString(
\* ab.add(v))" for each in turn
RECURSIVE poolAppendSQL(_, _, _, _, _)
poolAppendSQL(arrs, a, b, args, i) ==
    IF i > Len(args) THEN [arrays |-> arrs, ab |-> a, buf |-> b]
    ELSE LET r == poolAdd(arrs, a, args[i])
         IN  poolAppendSQL(r.arrays, r.ab, WriteBuffer(b, r.text), args, i + 1)

\* a goroutine outside SQL()
CallerIdle == [pc |-> "idle", ab |-> 0, buf |-> 0, args |-> <<>>]

\* the calls of SQL() begun so far
Begun == Len(out) + Cardinality({p \in Callers : gr[p].pc # "idle"})

\* what Get of a pool may return: an object that lies in the pool, or a new one
Gettable(pool, objs) == pool \cup (IF Len(objs) < MaxObjs THEN {Len(objs) + 1} ELSE {})

\* "buf := getBuffer(); defer putBuffer(buf); ab := newArgBuilder(b.d, buf);
\* defer putArgBuilder(ab)" of a statement that binds k arguments
BeginSQL(p, d, k, b, a) ==
    /\ gr[p].pc = "idle"
    /\ Begun < MaxSQLCalls
    /\ b \in Gettable(bufferPool, bufObj)
    /\ a \in Gettable(argBuilderPool, abObj)
    /\ bufferPool' = bufferPool \ {b}
    /\ bufObj' = IF b > Len(bufObj) THEN Append(bufObj, ResetBuffer(NewBuffer))
                 ELSE [bufObj EXCEPT ![b] = ResetBuffer(@)]
    /\ argBuilderPool' = argBuilderPool \ {a}
    /\ IF a > Len(abObj)
         THEN /\ arrays' = Append(arrays, [i \in 1..newArgsCap |-> 0])
              /\ abObj' = Append(abObj, resetArgBuilder(NewArgBuilder(arrays), d, b))
         ELSE /\ arrays' = arrays
              /\ abObj' = [abObj EXCEPT ![a] = resetArgBuilder(@, d, b)]
    /\ gr' = [gr EXCEPT ![p] = [pc |-> "compile", ab |-> a, buf |-> b,
                                args |-> StmtArgs(Begun + 1, k)]]
    /\ UNCHANGED <<out, outsidePool>>

\* "if err := b.appendSQL(buf, ab); err != nil": the statement compiles
CompileSQL(p) ==
    LET r == poolAppendSQL(arrays, abObj[gr[p].ab],
                           WriteBuffer(bufObj[gr[p].buf], <<"S">>), gr[p].args, 1)
    IN  /\ gr[p].pc = "compile"
        /\ arrays' = r.arrays
        /\ abObj' = [abObj EXCEPT ![gr[p].ab] = r.ab]
        /\ bufObj' = [bufObj EXCEPT ![gr[p].buf] = r.buf]
        /\ gr' = [gr EXCEPT ![p].pc = "return"]
        /\ UNCHANGED <<argBuilderPool, bufferPool, out, outsidePool>>

\* putArgBuilder(ab): the argBuilder after the call, and whether it is pooled
ArgBuilderPooled(a) == ~(a.args.cap > maxPooledArgs)
putArgBuilder(a) == IF ArgBuilderPooled(a) THEN [a EXCEPT !.d = NilDialect, !.buf = 0] ELSE a

\* putBuffer(buf): whether the buffer is pooled
BufferPooled(b) == ~(b.cap > maxPooledBufferCap)

\* "return buf.String(), ab.args, nil" and the deferred putArgBuilder(ab) and
\* putBuffer(buf).  The record kept has, next to what SQL() returned, the
\* arguments the returned slice showed at the return (want)
ReturnSQL(p) ==
    /\ gr[p].pc = "return"
    /\ out' = Append(out, [sql |-> bufObj[gr[p].buf].text,
                           args |-> abObj[gr[p].ab].args,
                           want |-> SliceValues(arrays, abObj[gr[p].ab].args)])
    /\ abObj' = [abObj EXCEPT ![gr[p].ab] = putArgBuilder(@)]
    /\ argBuilderPool' = IF ArgBuilderPooled(abObj[gr[p].ab])
                           THEN argBuilderPool \cup {gr[p].ab} ELSE argBuilderPool
    /\ bufferPool' = IF BufferPooled(bufObj[gr[p].buf])
                       THEN bufferPool \cup {gr[p].buf} ELSE bufferPool
    /\ gr' = [gr EXCEPT ![p] = CallerIdle]
    /\ UNCHANGED <<arrays, bufObj, outsidePool>>

InitPool ==
    /\ arrays = <<>>
    /\ abObj = <<>>
    /\ bufObj = <<>>
    /\ argBuilderPool = {}
    /\ bufferPool = {}
    /\ gr = [p \in Callers |-> CallerIdle]
    /\ out = <<>>
    /\ ExprIdle
    /\ SchemaIdle
    /\ BuildIdle
    /\ BatchIdle
    /\ FuncIdle

NextPool ==
    \E p \in Callers :
        \/ \E d \in Dialects : \E k \in 0..MaxStmtArgs :
             \E b \in 1..MaxObjs : \E a \in 1..MaxObjs : BeginSQL(p, d, k, b, a)
        \/ CompileSQL(p)
        \/ ReturnSQL(p)

SpecPool == InitPool /\ [][NextPool]_vars

-----------------------------------------------------------------------------
(* Properties of the pools *)

\* C15: what a call of SQL() returned does not change afterwards: the
\* arguments its args slice shows stay the ones it showed at the return,
\* whatever calls of SQL() are made later, on any goroutine.
C15_ReturnedArgsStayPut ==
    \A i \in 1..Len(out) : SliceValues(arrays, out[i].args) = out[i].want

\* C16: at the moment SQL() is handed its buffer and its argBuilder, the
\* buffer holds no text, the argBuilder holds no argument, and no argument of
\* an earlier statement lies in the backing array of its args.
C16_PooledObjectsAreReset ==
    \A p \in Callers :
        gr[p].pc = "compile"
            => /\ bufObj[gr[p].buf].text = <<>>
               /\ abObj[gr[p].ab].args.len = 0
               /\ Held(arrays, abObj[gr[p].ab].args) = {}

-----------------------------------------------------------------------------
(* SpecBatch: a caller makes an UpdateBuilder or an InsertBuilder, hands   *)
(* it structs of type BatchUpdateUser and maps, in any order and with the  *)
(* Include flags it likes, and compiles it.  An UpdateBuilder has had its  *)
(* AllowEmptyWhere called.                                                 *)

\* the method calls made before SQL()
MaxBatchCalls == 3
\* the structs or maps of one Models or Maps call
MaxRows == 2

\* a BatchUpdateUser
User(id, name, age) == [ID |-> id, Name |-> name, Age |-> age]

\* the structs the caller has: the two of
\* TestBatchUpdateModels_Postgres_OmitEmptyKeepsValue
UserPool == {User(1, 21, 0), User(2, 22, 10)}

ColExtra == <<"x">>

\* the maps the caller has: a full row, one without age, one with a column
\* more, one without the key
MapPool ==
    {(ColID :> 1) @@ (ColName :> 31) @@ (ColAge :> 41),
     (ColID :> 2) @@ (ColName :> 32),
     (ColID :> 3) @@ (ColName :> 33) @@ (ColAge :> 43) @@ (ColExtra :> 53),
     (ColName :> 34) @@ (ColAge :> 44)}

\* the slices of one to MaxRows elements of pool
Slices(pool) == UNION {[1..n -> pool] : n \in 1..MaxRows}

\* the column lists the caller declares
ColumnLists == {<<ColName, ColAge>>, <<ColAge>>}

NoCall == [op |-> "none", structs |-> <<>>, maps |-> <<>>, columns |-> <<>>, zero |-> FALSE]

InitBatch ==
    /\ \E d \in Dialects, table \in {TableUsers, <<>>}, kind \in {"update", "insert"} :
           stmt = [id \in {Main} |->
                     IF kind = "update" THEN AllowEmptyWhere(newUpdate(d, table))
                     ELSE newInsert(d, table)]
    /\ sres = NoRes
    /\ slog = <<>>
    /\ ExprIdle
    /\ SchemaIdle
    /\ BuildIdle
    /\ PoolIdle
    /\ FuncIdle

IsUpdate == stmt[Main].kind = "update"
IsInsert == stmt[Main].kind = "insert"

\* the builder after a call, and the call in the log; zero is whether the
\* include-zero override was set when the call was made
BatchCalled(b, call) ==
    /\ sres = NoRes
    /\ Len(slog) < MaxBatchCalls
    /\ stmt' = [stmt EXCEPT ![Main] = b]
    /\ slog' = Append(slog, [call EXCEPT !.zero = stmt[Main].includeZero])
    /\ UNCHANGED <<sres, outsideBatch>>

CallIncludeZero ==
    BatchCalled(IncludeZero(stmt[Main]), [NoCall EXCEPT !.op = "IncludeZero"])

CallKey(column) ==
    /\ IsUpdate
    /\ BatchCalled(Key(stmt[Main], column), [NoCall EXCEPT !.op = "Key", !.columns = <<column>>])

CallColumns(cols) ==
    /\ IsInsert
    /\ BatchCalled(Columns(stmt[Main], cols, 1), [NoCall EXCEPT !.op = "Columns", !.columns = cols])

CallModel(dest) ==
    BatchCalled(IF IsUpdate THEN Model(stmt[Main], BatchUpdateUser, dest)
                ELSE InsertModel(stmt[Main], BatchUpdateUser, dest),
                [NoCall EXCEPT !.op = "Model", !.structs = <<dest>>])

CallModels(models) ==
    /\ IsUpdate
    /\ BatchCalled(Models(stmt[Main], BatchUpdateUser, models),
                   [NoCall EXCEPT !.op = "Models", !.structs = models])

CallMaps(rows) ==
    BatchCalled(IF IsUpdate THEN Maps(stmt[Main], rows) ELSE InsertMaps(stmt[Main], rows, 1),
                [NoCall EXCEPT !.op = "Maps", !.maps = rows])

CallBatchSQL ==
    /\ sres = NoRes
    /\ sres' = SQL(stmt, Main)
    /\ UNCHANGED <<stmt, slog, outsideBatch>>

NextBatch ==
    \/ CallIncludeZero
    \/ \E column \in {ColName} : CallKey(column)
    \/ \E cols \in ColumnLists : CallColumns(cols)
    \/ \E dest \in UserPool : CallModel(dest)
    \/ \E models \in Slices(UserPool) : CallModels(models)
    \/ \E rows \in Slices(MapPool) : CallMaps(rows)
    \/ CallBatchSQL

SpecBatch == InitBatch /\ [][NextBatch]_vars

-----------------------------------------------------------------------------
(* Claims about statements built from structs and maps *)

\* SQL() of the builder returned a statement
BatchCompiled == sres.err = NoErr

\* the builder is an UpdateBuilder in batch mode
InBatch == IsUpdate /\ stmt[Main].batch # NilBatch

\* the cells of batch b in the order of the statement: the columns in the
\* order of b.columns, within a column the rows in their input order
CellCount(b) == Len(b.columns) * Len(b.rowsKeys)
CellColumn(b, k) == ((k - 1) \div Len(b.rowsKeys)) + 1
CellRow(b, k) == ((k - 1) % Len(b.rowsKeys)) + 1
CellValue(b, k) == b.rowsValues[CellRow(b, k)][CellColumn(b, k)]
KeepsCurrent(b, k) == CellValue(b, k) = keepCurrentSentinel

\* the text and the arguments of the cells from the k-th on, n arguments
\* bound before them
RECURSIVE CaseCells(_, _, _)
CaseCells(b, k, n) ==
    LET col == QuoteIdent(b.d, b.columns[CellColumn(b, k)])
        key == QuoteIdent(b.d, b.keyColumn)
        first == CellRow(b, k) = 1
        last == CellRow(b, k) = Len(b.rowsKeys)
        bound == IF KeepsCurrent(b, k) THEN 1 ELSE 2
        rest == CaseCells(b, k + 1, n + bound)
    IN  IF k > CellCount(b) THEN [sql |-> <<>>, args |-> <<>>]
        ELSE [sql |-> (IF first
                         THEN (IF k > 1 THEN <<",", " ">> ELSE <<>>)
                              \o col \o <<" ", "=", " ", "C", "A", "S", "E", " ">> \o key
                         ELSE <<>>)
                      \o <<" ", "W", "H", "E", "N", " ">> \o Placeholder(b.d, n + 1)
                      \o <<" ", "T", "H", "E", "N", " ">>
                      \o (IF KeepsCurrent(b, k) THEN col ELSE Placeholder(b.d, n + 2))
                      \o (IF last THEN <<" ", "E", "L", "S", "E", " ">> \o col \o <<" ", "E", "N", "D">>
                          ELSE <<>>)
                      \o rest.sql,
              args |-> <<b.rowsKeys[CellRow(b, k)]>>
                       \o (IF KeepsCurrent(b, k) THEN <<>> ELSE <<CellValue(b, k)>>)
                       \o rest.args]

\* the IN list of the keys from row i on, n arguments bound before it
RECURSIVE KeyPlaceholders(_, _, _)
KeyPlaceholders(b, i, n) ==
    IF i > Len(b.rowsKeys) THEN <<>>
    ELSE (IF i > 1 THEN <<",", " ">> ELSE <<>>) \o Placeholder(b.d, n + 1)
         \o KeyPlaceholders(b, i + 1, n + 1)

\* the one UPDATE statement of batch b
BatchStatement(b) ==
    LET set == CaseCells(b, 1, 0)
    IN  [sql |-> <<"U", "P", "D", "A", "T", "E", " ">> \o QuoteIdent(b.d, b.table)
                 \o <<" ", "S", "E", "T", " ">> \o set.sql
                 \o <<" ", "W", "H", "E", "R", "E", " ">> \o QuoteIdent(b.d, b.keyColumn)
                 \o <<" ", "I", "N", " ", "(">> \o KeyPlaceholders(b, 1, Len(set.args))
                 \o <<")">>,
         args |-> set.args \o b.rowsKeys]

\* C18: a compiled batch update is one UPDATE statement: one CASE per column
\* in the order of the column list, its WHEN branches in the order of the
\* rows; a keep-current cell writes the quoted column and binds nothing, every
\* other cell writes one placeholder bound to the cell's value.
C18_BatchUpdateShape ==
    (BatchCompiled /\ InBatch)
        => /\ sres.sql = BatchStatement(stmt[Main].batch).sql
           /\ sres.args = BatchStatement(stmt[Main].batch).args

\* a batch of two rows and two columns compiled with one cell that keeps the
\* current value and one that does not
C18_Witness ==
    /\ BatchCompiled
    /\ InBatch
    /\ Len(stmt[Main].batch.rowsKeys) = 2
    /\ Len(stmt[Main].batch.columns) = 2
    /\ \E k, l \in 1..CellCount(stmt[Main].batch) :
           KeepsCurrent(stmt[Main].batch, k) /\ ~KeepsCurrent(stmt[Main].batch, l)

\* the structs the caller supplied in the order of the calls, each with
\* whether the include-zero override was set when its call was made
RECURSIVE SuppliedFrom(_)
SuppliedFrom(i) ==
    IF i > Len(slog) THEN <<>>
    ELSE [k \in 1..Len(slog[i].structs) |-> [s |-> slog[i].structs[k], zero |-> slog[i].zero]]
         \o SuppliedFrom(i + 1)
Supplied == SuppliedFrom(1)

\* the caller supplied structs and nothing else
StructOnly ==
    /\ \A i \in 1..Len(slog) : slog[i].op \in {"IncludeZero", "Key", "Model", "Models"}
    /\ Supplied # <<>>

\* the zero value is among the arguments bound
ZeroBound == \E i \in 1..Len(sres.args) : sres.args[i] = 0

\* the row of the k-th struct supplied holds Age = 0, the omit-on-zero field
ZeroAge(k) == IsZero(Supplied[k].s.Age)

\* the cell of column age in the row of the k-th struct supplied
AgeCell(b, k) ==
    b.rowsValues[k][CHOOSE j \in 1..Len(b.columns) : b.columns[j] = ColAge]

RECURSIVE MapsFrom(_)
MapsFrom(i) == IF i > Len(slog) THEN <<>> ELSE slog[i].maps \o MapsFrom(i + 1)
MapRows == MapsFrom(1)

\* the caller declared the column list before the first row
Declared == Len(slog) > 0 /\ slog[1].op = "Columns"

\* the caller supplied maps and nothing else, after at most one Columns call,
\* to a builder that has a table
MapsOnly ==
    /\ \A i \in 1..Len(slog) : slog[i].op = "Maps" \/ (i = 1 /\ Declared)
    /\ MapRows # <<>>
    /\ stmt[Main].table # <<>>

\* the key column of a batch update, which is no column of its list
KeySet == IF IsUpdate THEN {ColID} ELSE {}

\* the column list: the one declared, else the one derived from the first row
ColumnList == IF Declared THEN slog[1].columns ELSE SortStrings(DOMAIN MapRows[1] \ KeySet)
Listed == {ColumnList[j] : j \in 1..Len(ColumnList)}

\* row i has no value for a column of the list; row i has a column that is
\* not in the list
Lacks(i) == Listed \ DOMAIN MapRows[i] # {}
Extra(i) == (DOMAIN MapRows[i] \ KeySet) \ Listed # {}
Keyless(i) == KeySet \ DOMAIN MapRows[i] # {}

\* SQL() has returned
BatchReturned == sres.err # "none"

\* the values of the listed columns of the rows from the i-th on, row by row
RECURSIVE ListedValues(_)
ListedValues(i) ==
    IF i > Len(MapRows) THEN <<>>
    ELSE [j \in 1..Len(ColumnList) |-> MapRows[i][ColumnList[j]]] \o ListedValues(i + 1)

-----------------------------------------------------------------------------
(* Statements from one map: SpecMap.  Two callers build the same statement  *)
(* with equal maps, call by call; the runtime visits each caller's map in   *)
(* an order of its own.  stmt holds the builders of both, sres what SQL()   *)
(* of the first returned, slog the calls.                                   *)

\* the method calls made before SQL()
MaxMapCalls == 2
\* the most keys of one map
MaxKeys == 3

ColNameTitle == <<"N", "a", "m", "e">>
ColNameUpper == <<"N", "A", "M", "E">>

\* the value each key has in the maps of the callers
MapValue == (ColAge :> 41) @@ (ColNameTitle :> 42) @@ (ColNameUpper :> 43) @@ (BadIdent :> 44)

\* the maps the callers have
OneMaps ==
    {[k \in K |-> MapValue[k]] :
        K \in {K \in SUBSET (DOMAIN MapValue) : K # {} /\ Cardinality(K) <= MaxKeys}}

InitMap ==
    /\ \E d \in Dialects, kind \in {"insert", "update", "select", "delete"} :
           stmt = [id \in {Main, Sub} |->
                     CASE kind = "insert" -> newInsert(d, TableUsers)
                       [] kind = "update" -> AllowEmptyWhere(newUpdate(d, TableUsers))
                       [] kind = "select" -> From(newSelect(d, <<>>), TableUsers)
                       [] kind = "delete" -> AllowEmptyWhere(newDelete(d, TableUsers))]
    /\ sres = NoRes
    /\ slog = <<>>
    /\ ExprIdle
    /\ SchemaIdle
    /\ BuildIdle
    /\ PoolIdle
    /\ FuncIdle

\* both callers made the same call
MapCalled(first, second, call) ==
    /\ sres = NoRes
    /\ Len(slog) < MaxMapCalls
    /\ stmt' = [stmt EXCEPT ![Main] = first, ![Sub] = second]
    /\ slog' = Append(slog, call)
    /\ UNCHANGED <<sres, outsideBatch>>

CallMapColumns(cols) ==
    /\ IsInsert
    /\ MapCalled(Columns(stmt[Main], cols, 1), Columns(stmt[Sub], cols, 1),
                 [NoCall EXCEPT !.op = "Columns", !.columns = cols])

\* Map(values) of both, visited in order first by one and second by the other
CallMap(values, first, second) ==
    /\ IsInsert \/ IsUpdate
    /\ MapCalled(IF IsInsert THEN Map(stmt[Main], values, first)
                 ELSE UpdateMap(stmt[Main], values, first),
                 IF IsInsert THEN Map(stmt[Sub], values, second)
                 ELSE UpdateMap(stmt[Sub], values, second),
                 [NoCall EXCEPT !.op = "Map", !.maps = <<values>>])

CallWhereMap(conditions, first, second) ==
    /\ ~IsInsert
    /\ MapCalled(WhereMap(stmt[Main], conditions, first),
                 WhereMap(stmt[Sub], conditions, second),
                 [NoCall EXCEPT !.op = "WhereMap", !.maps = <<conditions>>])

CallMapSQL ==
    /\ sres = NoRes
    /\ sres' = SQL(stmt, Main)
    /\ UNCHANGED <<stmt, slog, outsideBatch>>

NextMap ==
    \/ \E cols \in {<<ColName>>, <<ColAge>>} : CallMapColumns(cols)
    \/ \E values \in OneMaps : \E first, second \in RangeOrders(values) :
           CallMap(values, first, second)
    \/ \E conditions \in OneMaps : \E first, second \in RangeOrders(conditions) :
           CallWhereMap(conditions, first, second)
    \/ CallMapSQL

SpecMap == InitMap /\ [][NextMap]_vars

-----------------------------------------------------------------------------
(* Claims about statements built from one map *)

\* SQL() of the first caller returned
MapReturned == sres # NoRes

\* C21: the statement and the arguments a builder compiles to after
\* map-sourced calls are those of any other builder given equal maps,
\* whatever the order the maps were visited in.  InsertBuilder.Map with
\* declared columns reads a column that is no key of the map from normValues,
\* where of two keys alike but for case the one visited last stays.
C21_EqualMapsCompileAlike == MapReturned => sres = SQL(stmt, Sub)

\* the sorted paths taken alone do not depend on the order
C21_SortedPathsAlike == stmt[Main] # stmt[Sub] => \E c \in 1..Len(slog) : slog[c].op = "Columns"

-----------------------------------------------------------------------------
(* Rows given one by one: SpecRows.  The caller holds an InsertBuilder and  *)
(* a SelectBuilder to insert from, and calls Columns, Values and FromSelect *)
(* in any order before SQL().                                               *)

\* the method calls made before SQL()
MaxRowCalls == 4
\* the most values of one Values call
MaxValues == 3

\* InsertBuilder.FromSelect
InsertFromSelect(b, sb) == [b EXCEPT !.fromSelect = sb]

\* the rows the caller has: of no value, of one, ... of MaxValues values
RowPool == {[i \in 1..n |-> 60 + i] : n \in 0..MaxValues}

InitRows ==
    /\ \E d \in Dialects, table \in {TableUsers, <<>>} :
           stmt = (Main :> newInsert(d, table)) @@ (Sub :> From(newSelect(d, <<>>), TableUsers))
    /\ sres = NoRes
    /\ slog = <<>>
    /\ ExprIdle
    /\ SchemaIdle
    /\ BuildIdle
    /\ PoolIdle
    /\ FuncIdle

RowCalled(b, call) ==
    /\ sres = NoRes
    /\ Len(slog) < MaxRowCalls
    /\ stmt' = [stmt EXCEPT ![Main] = b]
    /\ slog' = Append(slog, call)
    /\ UNCHANGED <<sres, outsideBatch>>

CallRowColumns(cols) ==
    RowCalled(Columns(stmt[Main], cols, 1), [NoCall EXCEPT !.op = "Columns", !.columns = cols])

CallValues(values) ==
    RowCalled(Values(stmt[Main], values), [NoCall EXCEPT !.op = "Values", !.structs = values])

CallInsertFromSelect ==
    /\ stmt[Main].fromSelect = NilBuilder
    /\ RowCalled(InsertFromSelect(stmt[Main], Sub), [NoCall EXCEPT !.op = "FromSelect"])

CallRowsSQL ==
    /\ sres = NoRes
    /\ sres' = SQL(stmt, Main)
    /\ UNCHANGED <<stmt, slog, outsideBatch>>

NextRows ==
    \/ \E cols \in {<<ColName>>, <<ColName, ColAge>>, <<BadIdent>>} : CallRowColumns(cols)
    \/ \E values \in RowPool : CallValues(values)
    \/ CallInsertFromSelect
    \/ CallRowsSQL

SpecRows == InitRows /\ [][NextRows]_vars

-----------------------------------------------------------------------------
(* Claims about rows given one by one *)

RowsReturned == sres # NoRes

\* the rows of b whose value count is not the column count
RaggedRows(b) == {r \in 1..Len(b.rows) : Len(b.rows[r]) # Len(b.columns)}

\* C22 as stated: whenever a row has a value count different from the column
\* count, SQL() fails with the length-mismatch error.  It does not when an
\* earlier check fails first, nor when the rows are taken from a SELECT.
C22_RaggedRowFailsWithMismatch ==
    RowsReturned /\ RaggedRows(stmt[Main]) # {} => sres = Failure(ErrInsertLengthMismatch)

\* nothing but the row check stands between b and its VALUES list
ReachesValues(b) ==
    /\ b.err = NoErr
    /\ TrimSpace(b.table) # <<>>
    /\ quoteIdentStrict(b.d, b.table).ok
    /\ Len(b.columns) > 0
    /\ b.fromSelect = NilBuilder

\* C22: a builder with a row whose value count is not the column count,
\* wherever the row stands and whenever Columns was called, compiles to no
\* statement unless its rows are taken from a SELECT, and SQL() returns the
\* length-mismatch error if no earlier check fails; a statement with a
\* VALUES list has one argument for each column of each row.
C22_NoRaggedValuesEmitted ==
    LET b == stmt[Main]
    IN  RowsReturned =>
          /\ RaggedRows(b) # {} /\ b.fromSelect = NilBuilder => sres.err # NoErr /\ sres = Failure(sres.err)
          /\ RaggedRows(b) # {} /\ ReachesValues(b) => sres = Failure(ErrInsertLengthMismatch)
          /\ sres.err = NoErr /\ b.fromSelect = NilBuilder =>
                /\ RaggedRows(b) = {}
                /\ Len(sres.args) = Len(b.rows) * Len(b.columns)

\* three rows of which the middle one alone is short, the columns declared
\* after the first row, refused by SQL()
C22_Witness ==
    /\ RowsReturned
    /\ ReachesValues(stmt[Main])
    /\ Len(slog) = 4
    /\ slog[1].op = "Values"
    /\ slog[2].op = "Columns"
    /\ RaggedRows(stmt[Main]) = {2}
    /\ sres = Failure(ErrInsertLengthMismatch)

-----------------------------------------------------------------------------
(* Row locks and unions: SpecLock.  The caller holds two SelectBuilders,    *)
(* asks either for FOR UPDATE, makes the second a union member of the      *)
(* first, in any order, and compiles the first.                            *)

InitLock ==
    /\ \E d \in Dialects : bld = [id \in {Main, Sub} |-> newSelect(d, <<>>)]
    /\ req = [id \in {Main, Sub} |-> NoReq]
    /\ res = NoRes
    /\ ops = 0
    /\ ExprIdle
    /\ SchemaIdle
    /\ PoolIdle
    /\ BatchIdle
    /\ FuncIdle

CallForUpdate(id) ==
    /\ ~bld[id].forUpdate
    /\ Called(id, ForUpdate(bld[id]), FALSE, FALSE, {})

CallUnionAll ==
    /\ Len(bld[Main].unions) < MaxParts
    /\ Called(Main, UnionAll(bld[Main], Sub), FALSE, FALSE, {})

NextLock ==
    \/ \E id \in {Main, Sub} : \E table \in Idents(id) : CallFrom(id, table)
    \/ \E id \in {Main, Sub} : CallForUpdate(id)
    \/ CallUnion
    \/ CallUnionAll
    \/ CallSQL

SpecLock == InitLock /\ [][NextLock]_vars

-----------------------------------------------------------------------------
(* Claims about row locks and unions *)

TextUnion == <<" ", "U", "N", "I", "O", "N", " ">>
TextForUpdate == <<" ", "F", "O", "R", " ", "U", "P", "D", "A", "T", "E">>

\* C23: no statement SQL() returns holds both a UNION or UNION ALL and a
\* FOR UPDATE, whether FOR UPDATE was asked of the composing select or of
\* the member.  appendSQL refuses the pair only when both are the composing
\* select's own; a member's FOR UPDATE is written between the parentheses.
C23_NoForUpdateWithUnion ==
    res.err = NoErr => ~(Contains(res.sql, TextUnion) /\ Contains(res.sql, TextForUpdate))

\* the part that holds: FOR UPDATE of the composing select is refused with a
\* union, whichever was called first
C23_ComposingSelectRefused ==
    Compiled1 /\ bld[Main].forUpdate /\ Len(bld[Main].unions) > 0 => res.err # NoErr /\ res = Failure(res.err)

-----------------------------------------------------------------------------
(* Identifiers: SpecIdent.  One identifier is handed to one of the quoting  *)
(* functions: quoteSelectColumnStrict for a select column,                  *)
(* quoteIdentStrict for a table or a qualified column, quoteColumnStrict    *)
(* for a plain column.                                                      *)

\* the longest identifier handed in
MaxIdentLen == 5

\* the characters identifiers are made of
IdentChars == {"a", "1", ".", "*", " "}

IdentPool == UNION {[1..n -> IdentChars] : n \in 0..MaxIdentLen}

QuoteFunctions == {"quoteSelectColumnStrict", "quoteIdentStrict", "quoteColumnStrict"}

InitIdent ==
    /\ \E fn \in QuoteFunctions, d \in Dialects, ident \in IdentPool :
           input = [fn |-> fn, d |-> d, ident |-> ident]
    /\ output = NoOutput
    /\ ExprIdle
    /\ SchemaIdle
    /\ BuildIdle
    /\ PoolIdle
    /\ BatchIdle

\* fn(d, ident) returned r
QuoteReturned(fn, r) ==
    /\ input.fn = fn
    /\ output = NoOutput
    /\ output' = [of |-> fn, q |-> r.q, ok |-> r.ok]
    /\ UNCHANGED <<input, outsideFunc>>

CallQuoteSelectColumnStrict ==
    QuoteReturned("quoteSelectColumnStrict", quoteSelectColumnStrict(input.d, input.ident))

CallQuoteIdentStrict ==
    QuoteReturned("quoteIdentStrict", quoteIdentStrict(input.d, input.ident))

CallQuoteColumnStrict ==
    QuoteReturned("quoteColumnStrict", quoteColumnStrict(input.d, input.ident))

NextIdent ==
    \/ CallQuoteSelectColumnStrict
    \/ CallQuoteIdentStrict
    \/ CallQuoteColumnStrict

SpecIdent == InitIdent /\ [][NextIdent]_vars

-----------------------------------------------------------------------------
(* Claims about identifiers *)

Quoting == output # NoOutput

\* the identifier without the white space around it
Ident == TrimSpace(input.ident)

\* ident is table.* for a simple identifier table
TableStar(ident) ==
    /\ Len(ident) > 2
    /\ SubSeq(ident, Len(ident) - 1, Len(ident)) = <<".", "*">>
    /\ isSimpleIdent(SubSeq(ident, 1, Len(ident) - 2))

\* C24: a select column that is * or table.* is accepted and comes back as *
\* or as the quoted table followed by .*; every other identifier that holds
\* a * is refused, and so is every table or plain column that holds one.
\* quoteIdentWithStar looks for the refused characters, * among them, before
\* it splits at the dot, so table.* is refused too.
C24_StarOnlyAsWholeSegment ==
    Quoting /\ HasByte(Ident, "*") =>
        IF output.of = "quoteSelectColumnStrict" /\ Ident = <<"*">>
          THEN output.ok /\ output.q = <<"*">>
        ELSE IF output.of = "quoteSelectColumnStrict" /\ TableStar(Ident)
          THEN /\ output.ok
               /\ output.q = QuoteIdent(input.d, SubSeq(Ident, 1, Len(Ident) - 2)) \o <<".", "*">>
        ELSE ~output.ok

\* the part that holds: outside the select-column context, and embedded in
\* or before another segment, a * is refused
C24_StarElsewhereRefused ==
    Quoting /\ HasByte(Ident, "*") /\ ~(output.of = "quoteSelectColumnStrict" /\ TableStar(Ident)) =>
        IF output.of = "quoteSelectColumnStrict" /\ Ident = <<"*">>
          THEN output.ok /\ output.q = <<"*">>
          ELSE ~output.ok

\* ident is two simple identifiers joined by one dot
TwoPart(ident) ==
    \E p \in 1..Len(ident) :
        /\ ident[p] = "."
        /\ isSimpleIdent(SubSeq(ident, 1, p - 1))
        /\ isSimpleIdent(SubSeq(ident, p + 1, Len(ident)))

\* C25: quoteIdentWithStar accepts an identifier without * exactly if it is
\* one simple identifier or two joined by one dot.  The loop over the dots
\* takes any number of segments.
C25_OneOrTwoSegments ==
    Quoting /\ output.of # "quoteColumnStrict" /\ ~HasByte(Ident, "*") =>
        (output.ok <=> isSimpleIdent(Ident) \/ TwoPart(Ident))

\* the part that holds: an empty segment is refused
C25_EmptySegmentRefused ==
    Quoting /\ (\E p \in 1..Len(Ident) : Ident[p] = "."
                    /\ (p = 1 \/ p = Len(Ident) \/ Ident[p - 1] = ".")) => ~output.ok

-----------------------------------------------------------------------------
(* The fragment algebra: clause/expr.go.  A value handed to In is a record *)
(* of its kind and dynamic type: a scalar, the untyped nil, or a slice of  *)
(* an element type with its elements; a nil slice is a slice without       *)
(* elements whose isNil is set.  Expr is the record [SQL, Args] of the     *)
(* builders.                                                               *)

Expr(sql, args) == [SQL |-> sql, Args |-> args]

\* Expr{}
EmptyExpr == Expr(<<>>, <<>>)

Scalar(type, v) == [kind |-> "scalar", type |-> type, v |-> v, isNil |-> FALSE, elems |-> <<>>]
UntypedNil == [kind |-> "nil", type |-> "nil", v |-> 0, isNil |-> TRUE, elems |-> <<>>]
SliceOf(type, elems) == [kind |-> "slice", type |-> type, v |-> 0, isNil |-> FALSE, elems |-> elems]
NilSlice(type) == [kind |-> "slice", type |-> type, v |-> 0, isNil |-> TRUE, elems |-> <<>>]

\* the slice types the type switch of In names, by their element type
SwitchElemTypes == {"any", "string", "int", "int64", "uint64", "int32", "uint"}

\* rv.Kind() == reflect.Slice && rv.Type().Elem().Kind() != reflect.Uint8
IsFlattened(v) == v.kind = "slice" /\ v.type # "uint8"

\* the text of the IN list the loop of buildIn writes for the args from i on
RECURSIVE buildInList(_, _)
buildInList(args, i) ==
    IF i > Len(args) THEN <<>>
    ELSE (IF i > 1 THEN <<",", " ">> ELSE <<>>) \o <<"?">> \o buildInList(args, i + 1)

\* clause.buildIn
buildIn(column, args) ==
    LET n == Len(args)
    IN  CASE n = 1 -> Expr(column \o <<" ", "I", "N", " ", "(", "?", ")">>, args)
          [] n = 2 -> Expr(column \o <<" ", "I", "N", " ", "(", "?", ",", " ", "?", ")">>, args)
          [] n = 3 -> Expr(column \o <<" ", "I", "N", " ", "(", "?", ",", " ", "?", ",", " ", "?", ")">>, args)
          [] n = 4 -> Expr(column \o <<" ", "I", "N", " ", "(", "?", ",", " ", "?", ",", " ", "?", ",", " ", "?", ")">>, args)
          [] n = 5 -> Expr(column \o <<" ", "I", "N", " ", "(", "?", ",", " ", "?", ",", " ", "?", ",", " ", "?", ",", " ", "?", ")">>, args)
          [] OTHER -> Expr(column \o <<" ", "I", "N", " ", "(">> \o buildInList(args, 1) \o <<")">>, args)

FalseExpr == Expr(<<"1", "=", "0">>, <<>>)

\* the loop of In over values from the i-th on, two levels flattened
RECURSIVE flattened_TwoLevels(_, _)
flattened_TwoLevels(values, i) ==
    IF i > Len(values) THEN <<>>
    ELSE (IF IsFlattened(values[i]) THEN flattened_TwoLevels(values[i].elems, 1) ELSE <<values[i]>>)
         \o flattened_TwoLevels(values, i + 1)

\* the loop of In over values from the i-th on
RECURSIVE flattened(_, _)
flattened(values, i) ==
    IF i > Len(values) THEN <<>>
    ELSE (IF IsFlattened(values[i]) THEN values[i].elems ELSE <<values[i]>>)
         \o flattened(values, i + 1)

\* clause.In without the tests for an empty list
In_EmptyList(column, values) ==
    Expr(column \o <<" ", "I", "N", " ", "(">> \o buildInList(flattened(values, 1), 1) \o <<")">>,
         flattened(values, 1))

\* clause.In
In(column, values) ==
    IF Len(values) = 0 THEN FalseExpr
    ELSE IF Len(values) = 1 /\ values[1].kind = "slice" /\ values[1].type \in SwitchElemTypes
      THEN IF Len(values[1].elems) = 0 THEN FalseExpr ELSE buildIn(column, values[1].elems)
    ELSE IF Len(values) = 1 /\ ~(values[1].kind = "slice" /\ values[1].type = "uint8")
            /\ IsFlattened(values[1])
      THEN IF Len(values[1].elems) = 0 THEN FalseExpr ELSE buildIn(column, values[1].elems)
    ELSE IF Len(flattened(values, 1)) = 0 THEN FalseExpr
    ELSE buildIn(column, flattened(values, 1))

\* the members of exprs from the i-th on that join keeps
RECURSIVE joinKept(_, _)
joinKept(exprs, i) ==
    IF i > Len(exprs) THEN <<>>
    ELSE (IF TrimSpace(exprs[i].SQL) = <<>> THEN <<>> ELSE <<exprs[i]>>) \o joinKept(exprs, i + 1)

\* strings.Join(parts, " "+op+" ") of the parenthesized members from the i-th on
RECURSIVE joinParts(_, _, _)
joinParts(kept, op, i) ==
    IF i > Len(kept) THEN <<>>
    ELSE (IF i > 1 THEN <<" ">> \o op \o <<" ">> ELSE <<>>)
         \o <<"(">> \o kept[i].SQL \o <<")">> \o joinParts(kept, op, i + 1)

\* the args of the members from the i-th on
RECURSIVE joinArgs(_, _)
joinArgs(kept, i) == IF i > Len(kept) THEN <<>> ELSE kept[i].Args \o joinArgs(kept, i + 1)

\* clause.join with every member kept
join_KeepsBlank(op, exprs) ==
    IF Len(exprs) = 0 THEN EmptyExpr
    ELSE Expr(joinParts(exprs, op, 1), joinArgs(exprs, 1))

\* clause.join
join(op, exprs) ==
    LET kept == joinKept(exprs, 1)
    IN  IF Len(exprs) = 0 THEN EmptyExpr
        ELSE IF Len(kept) = 0 THEN EmptyExpr
        ELSE Expr(joinParts(kept, op, 1), joinArgs(kept, 1))

And(exprs) == join(<<"A", "N", "D">>, exprs)
Or(exprs) == join(<<"O", "R">>, exprs)

-----------------------------------------------------------------------------
(* SpecClause: one call of In, And or Or *)

\* the most values handed to In
MaxInValues == 3
\* the most members handed to And and Or
MaxMembers == 3

\* the values a caller hands to In: scalars, the untyped nil, byte slices,
\* slices of the types In names and of a type it does not, empty and nil
\* ones, and a []any slice that holds a slice
InValues ==
    {Scalar("int", 1), Scalar("string", 2), UntypedNil,
     SliceOf("uint8", <<>>), SliceOf("uint8", <<Scalar("uint8", 7)>>),
     SliceOf("int", <<>>), NilSlice("int"), SliceOf("int", <<Scalar("int", 3), Scalar("int", 4)>>),
     SliceOf("string", <<Scalar("string", 5)>>), NilSlice("any"),
     SliceOf("float64", <<>>), NilSlice("float64"), SliceOf("float64", <<Scalar("float64", 6)>>),
     SliceOf("any", <<Scalar("int", 8), SliceOf("int", <<Scalar("int", 9), Scalar("int", 10)>>)>>),
     SliceOf("any", <<SliceOf("int", <<>>)>>)}

InColumns == {<<"c">>, <<"t", ".", "c">>, <<>>}

\* the fragments a caller hands to And and Or: with and without text, text
\* of white space only, with and without arguments
Members ==
    {Expr(<<"a", " ", "=", " ", "?">>, <<Scalar("int", 1)>>), Expr(<<"b">>, <<>>),
     Expr(<<" ", "c", " ">>, <<Scalar("int", 2)>>), EmptyExpr,
     Expr(<<" ", " ">>, <<>>), Expr(<<>>, <<Scalar("int", 3)>>)}

InitClause ==
    /\ \/ \E column \in InColumns, values \in UNION {[1..n -> InValues] : n \in 0..MaxInValues} :
              input = [fn |-> "In", column |-> column, values |-> values]
       \/ \E fn \in {"And", "Or"}, exprs \in UNION {[1..n -> Members] : n \in 0..MaxMembers} :
              input = [fn |-> fn, exprs |-> exprs]
    /\ output = NoOutput
    /\ ExprIdle
    /\ SchemaIdle
    /\ BuildIdle
    /\ PoolIdle
    /\ BatchIdle

ClauseReturned(fn, x) ==
    /\ output = NoOutput
    /\ output' = [of |-> fn, SQL |-> x.SQL, Args |-> x.Args]
    /\ UNCHANGED <<input, outsideFunc>>

CallIn == input.fn = "In" /\ ClauseReturned("In", In(input.column, input.values))
CallAnd == input.fn = "And" /\ ClauseReturned("And", And(input.exprs))
CallOr == input.fn = "Or" /\ ClauseReturned("Or", Or(input.exprs))

NextClause ==
    \/ CallIn
    \/ CallAnd
    \/ CallOr

SpecClause == InitClause /\ [][NextClause]_vars

-----------------------------------------------------------------------------
(* Claims about the fragment algebra *)

\* v is a sequence In flattens: a slice that is no byte slice
IsSequence(v) == v.kind = "slice" /\ v.type # "uint8"

\* the elements v stands for in the list
Width(v) == IF IsSequence(v) THEN Len(v.elems) ELSE 1

\* the elements the values before the i-th stand for
RECURSIVE WidthBefore(_, _)
WidthBefore(values, i) == IF i <= 1 THEN 0 ELSE WidthBefore(values, i - 1) + Width(values[i - 1])

\* the placeholders of text
Marks(text) == Cardinality({p \in 1..Len(text) : text[p] = "?"})

InReturned == output.of = "In"

\* C26: In of values that flatten to nothing (no values, empty and nil
\* sequences only) returns 1=0 without arguments, whatever the column, and
\* no fragment In returns holds an empty IN ().
C26_EmptyInIsFalse ==
    InReturned =>
        /\ (\A i \in 1..Len(input.values) : Width(input.values[i]) = 0) =>
               output.SQL = <<"1", "=", "0">> /\ output.Args = <<>>
        /\ ~Contains(output.SQL, <<"(", ")">>)

\* In of an empty and a nil sequence returned 1=0
C26_Witness ==
    /\ InReturned
    /\ Len(input.values) = 2
    /\ input.values[1] = SliceOf("int", <<>>)
    /\ input.values[2] = NilSlice("float64")
    /\ output.SQL = <<"1", "=", "0">>

\* C27: the arguments In returns are, value by value in the order given,
\* the elements of each sequence and each other value itself (a byte
\* sequence and a sequence inside a sequence are one element each), of
\* the type they came with, and the text holds one placeholder for each.
C27_FlattensOneLevel ==
    InReturned =>
        LET values == input.values
        IN  /\ Len(output.Args) = WidthBefore(values, Len(values) + 1)
            /\ \A i \in 1..Len(values) : \A j \in 1..Width(values[i]) :
                   output.Args[WidthBefore(values, i) + j] =
                       IF IsSequence(values[i]) THEN values[i].elems[j] ELSE values[i]
            /\ Marks(output.SQL) = Len(output.Args)
            /\ Len(output.Args) > 0 =>
                   /\ SubSeq(output.SQL, 1, Len(input.column) + 5) = input.column \o <<" ", "I", "N", " ", "(">>
                   /\ output.SQL[Len(output.SQL)] = ")"

\* In of a scalar, a []any slice that holds a slice, and a byte slice
C27_Witness ==
    /\ InReturned
    /\ Len(input.values) = 3
    /\ input.values[1] = Scalar("int", 1)
    /\ input.values[2].type = "any" /\ Len(input.values[2].elems) = 2
    /\ input.values[3] = SliceOf("uint8", <<Scalar("uint8", 7)>>)
    /\ Len(output.Args) = 4
    /\ output.Args[3].kind = "slice"

JoinReturned == output.of \in {"And", "Or"}

\* the word And and Or put between the members
JoinWord == IF output.of = "And" THEN <<" ", "A", "N", "D", " ">> ELSE <<" ", "O", "R", " ">>

\* the member has text that is not white space only
HasText(x) == \E p \in 1..Len(x.SQL) : x.SQL[p] \notin Whitespace

\* the text of the members of exprs from the i-th on that have text, each in
\* parentheses, the word before each but the first
RECURSIVE JoinedText(_, _, _)
JoinedText(exprs, i, first) ==
    IF i > Len(exprs) THEN <<>>
    ELSE IF ~HasText(exprs[i]) THEN JoinedText(exprs, i + 1, first)
    ELSE (IF first THEN <<>> ELSE JoinWord) \o <<"(">> \o exprs[i].SQL \o <<")">>
         \o JoinedText(exprs, i + 1, FALSE)

RECURSIVE JoinedArgs(_, _)
JoinedArgs(exprs, i) ==
    IF i > Len(exprs) THEN <<>>
    ELSE (IF HasText(exprs[i]) THEN exprs[i].Args ELSE <<>>) \o JoinedArgs(exprs, i + 1)

\* C28: And and Or return the members that have text, in their order, each
\* in parentheses, joined by the word, with their arguments in that order;
\* no empty parentheses; the empty fragment when no member has text.
C28_JoinKeepsMembersWithText ==
    JoinReturned =>
        /\ output.SQL = JoinedText(input.exprs, 1, TRUE)
        /\ output.Args = JoinedArgs(input.exprs, 1)
        /\ ~Contains(output.SQL, <<"(", ")">>)
        /\ (\A i \in 1..Len(input.exprs) : ~HasText(input.exprs[i])) =>
               output.SQL = <<>> /\ output.Args = <<>>

\* three members of which the middle one, white space with an argument, is
\* dropped
C28_Witness ==
    /\ JoinReturned
    /\ Len(input.exprs) = 3
    /\ HasText(input.exprs[1]) /\ HasText(input.exprs[3])
    /\ input.exprs[2] = Expr(<<>>, <<Scalar("int", 3)>>)
    /\ Len(input.exprs[1].Args) = 1
    /\ Len(output.Args) = Len(input.exprs[1].Args) + Len(input.exprs[3].Args)

-----------------------------------------------------------------------------
(* Progress of ParseType: SpecSchemaFair.  The Go scheduler runs every     *)
(* goroutine that can take a step, and parseSlow is taken to terminate: a  *)
(* call that has begun is not left standing while one of its steps stays   *)
(* possible.  No caller is obliged to begin a call.                        *)

\* a step of the call of p other than its beginning
Proceed(p) ==
    /\ \/ GroupLoadOrStore(p)
       \/ WaitDone(p)
       \/ \E outcome \in {"ok", "panic"} : ParseSlow(p, outcome)
       \/ FailPublish(p)
       \/ FailDelete(p)
       \/ CacheLoadOrStore(p)
       \/ CountAdd(p)
       \/ RangeBegin(p)
       \/ \E k \in Types : RangeVisit(p, k)
       \/ RangeDelete(p)
       \/ RangeCount(p)
       \/ RangeEnd(p)
       \/ UndoCount(p)
       \/ Publish(p)
       \/ GroupDelete(p)
    /\ UNCHANGED outsideSchema

\* the program from its start
InitSchemaFair == SchemaIdle /\ ExprIdle /\ BuildIdle /\ PoolIdle /\ BatchIdle /\ FuncIdle

SpecSchemaFair == InitSchemaFair /\ [][NextSchema]_vars /\ \A p \in Procs : WF_vars(Proceed(p))

\* C29: every call of ParseType returns: a caller that has begun a call, a
\* waiter on another call's marker among them, is back from it at some later
\* time, whether the leader's parseSlow returns or panics and whatever the
\* other callers do.
C29_EveryCallReturns == \A p \in Procs : (g[p].pc # "idle") ~> (g[p].pc = "idle")

\* a waiter released by a leader whose parseSlow panicked, while another
\* type was stored
C29_Witness ==
    \E c, d \in CallIds :
        /\ c # d
        /\ hist[c].ret /\ hist[d].ret
        /\ hist[c].e # 0 /\ hist[c].e = hist[d].e
        /\ hist[c].err = ErrParsePanic /\ hist[d].err = ErrParsePanic
        /\ \E t \in Types : runs[t] > 0 /\ t # hist[c].t

-----------------------------------------------------------------------------
(* Calls after a refused one: SpecSticky.  One caller holds a builder of    *)
(* any kind and calls its methods in any order, SQL() among them and as     *)
(* often as it likes.  stmt holds the builder and a SELECT to compose it    *)
(* with, sres what the last SQL() returned, slog the calls.                 *)

\* the calls of one caller, SQL() counted
MaxStickyCalls == 3

StickyColumns == {ColName, BadIdent}

\* the maps of one key the caller has
StickyMaps == {(ColName :> 42), (BadIdent :> 44)}

InitSticky ==
    /\ \E d \in Dialects, kind \in {"insert", "update", "select", "delete"} :
           stmt = [id \in {Main, Sub} |->
                     IF id = Sub THEN From(newSelect(d, <<>>), TableUsers)
                     ELSE CASE kind = "insert" -> newInsert(d, TableUsers)
                            [] kind = "update" -> newUpdate(d, TableUsers)
                            [] kind = "select" -> newSelect(d, <<>>)
                            [] kind = "delete" -> newDelete(d, TableUsers)]
    /\ sres = NoRes
    /\ slog = <<>>
    /\ ExprIdle
    /\ SchemaIdle
    /\ BuildIdle
    /\ PoolIdle
    /\ FuncIdle

IsSelectStmt == stmt[Main].kind = "select"
IsDeleteStmt == stmt[Main].kind = "delete"

\* the builder after a call, and the call in the log
StickyCalled(b, call) ==
    /\ Len(slog) < MaxStickyCalls
    /\ stmt' = [stmt EXCEPT ![Main] = b]
    /\ slog' = Append(slog, call)
    /\ UNCHANGED <<sres, outsideBatch>>

CallStickyFrom(table) ==
    /\ IsSelectStmt
    /\ StickyCalled(From(stmt[Main], table),
                    [NoCall EXCEPT !.op = "From", !.columns = <<table>>])

CallStickyWhereEq(column) ==
    /\ IsSelectStmt \/ IsDeleteStmt
    /\ StickyCalled(WhereEq(stmt[Main], column, 42),
                    [NoCall EXCEPT !.op = "WhereEq", !.columns = <<column>>])

CallStickyWhereMap(conditions) ==
    /\ ~IsInsert
    /\ StickyCalled(WhereMap(stmt[Main], conditions, OneRange(conditions)),
                    [NoCall EXCEPT !.op = "WhereMap", !.maps = <<conditions>>])

CallStickyUnion ==
    /\ IsSelectStmt
    /\ StickyCalled(Union(stmt[Main], Sub), [NoCall EXCEPT !.op = "Union"])

CallStickyLimit(limit) ==
    /\ ~IsInsert
    /\ StickyCalled(CASE IsSelectStmt -> SelectLimit(stmt[Main], limit)
                      [] IsUpdate -> UpdateLimit(stmt[Main], limit)
                      [] IsDeleteStmt -> DeleteLimit(stmt[Main], limit),
                    [NoCall EXCEPT !.op = "Limit"])

CallStickyAllowEmptyWhere ==
    /\ IsUpdate \/ IsDeleteStmt
    /\ StickyCalled(AllowEmptyWhere(stmt[Main]), [NoCall EXCEPT !.op = "AllowEmptyWhere"])

CallStickySet(column) ==
    /\ IsUpdate
    /\ StickyCalled(Set(stmt[Main], column, 42),
                    [NoCall EXCEPT !.op = "Set", !.columns = <<column>>])

CallStickyKey(column) ==
    /\ IsUpdate
    /\ StickyCalled(Key(stmt[Main], column),
                    [NoCall EXCEPT !.op = "Key", !.columns = <<column>>])

CallStickyModels(models) ==
    /\ IsUpdate
    /\ StickyCalled(Models(stmt[Main], BatchUpdateUser, models),
                    [NoCall EXCEPT !.op = "Models", !.structs = models])

CallStickyMaps(rows) ==
    /\ IsUpdate
    /\ StickyCalled(Maps(stmt[Main], rows), [NoCall EXCEPT !.op = "Maps", !.maps = rows])

CallStickyColumns(cols) ==
    /\ IsInsert
    /\ StickyCalled(Columns(stmt[Main], cols, 1),
                    [NoCall EXCEPT !.op = "Columns", !.columns = cols])

CallStickyValues(values) ==
    /\ IsInsert
    /\ StickyCalled(Values(stmt[Main], values), [NoCall EXCEPT !.op = "Values"])

CallStickyMap(values) ==
    /\ IsInsert \/ IsUpdate
    /\ StickyCalled(IF IsInsert THEN Map(stmt[Main], values, OneRange(values))
                    ELSE UpdateMap(stmt[Main], values, OneRange(values)),
                    [NoCall EXCEPT !.op = "Map", !.maps = <<values>>])

CallStickySQL ==
    /\ Len(slog) < MaxStickyCalls
    /\ sres' = SQL(stmt, Main)
    /\ slog' = Append(slog, [NoCall EXCEPT !.op = "SQL"])
    /\ UNCHANGED <<stmt, outsideBatch>>

NextSticky ==
    \/ \E table \in {TableUsers, BadIdent} : CallStickyFrom(table)
    \/ \E column \in StickyColumns : CallStickyWhereEq(column)
    \/ \E conditions \in StickyMaps : CallStickyWhereMap(conditions)
    \/ CallStickyUnion
    \/ \E limit \in {1} : CallStickyLimit(limit)
    \/ CallStickyAllowEmptyWhere
    \/ \E column \in StickyColumns : CallStickySet(column)
    \/ \E column \in {ColName} : CallStickyKey(column)
    \/ \E dest \in UserPool : CallStickyModels(<<dest>>)
    \/ \E row \in MapPool : CallStickyMaps(<<row>>)
    \/ \E column \in StickyColumns : CallStickyColumns(<<column>>)
    \/ CallStickyValues(<<42>>)
    \/ \E values \in StickyMaps : CallStickyMap(values)
    \/ CallStickySQL

SpecSticky == InitSticky /\ [][NextSticky]_vars

-----------------------------------------------------------------------------
(* Claims about calls after a refused one *)

\* the error of the batch of b, NoErr outside batch mode
BatchErr(b) == IF b.kind = "update" /\ b.batch # NilBatch THEN b.batch.err ELSE NoErr

\* the error SQL() of b finds recorded
Recorded(b) == IF b.err # NoErr THEN b.err ELSE BatchErr(b)

\* the step is a call of SQL()
StepIsSQL == Len(slog') = Len(slog) + 1 /\ slog'[Len(slog')].op = "SQL"

====
